---------------------------- MODULE Spec2Model ----------------------------
(***************************************************************************)
(* A model of the saucedemo-selenium test suite: the WebDriverManager      *)
(* session lifecycle, the mocha hooks that create and tear down sessions,  *)
(* the BasePage synchronised primitives and the LoginPage object.          *)
(*                                                                         *)
(* The browser driver (selenium-webdriver) and the application under test  *)
(* are external; they appear as nondeterministic outcomes of each driver   *)
(* call (an element is present or absent, a command succeeds or throws).   *)
(***************************************************************************)
EXTENDS Integers, Sequences, FiniteSets, TLC

(***************************************************************************)
(* Bounds of the model.                                                    *)
(***************************************************************************)
\* sessions one exploration may launch
MaxSessions == 3

(***************************************************************************)
(* JavaScript values.                                                      *)
(***************************************************************************)
\* `null`, as the manager's driver field holds it before createDriver
Null == 0

\* Strings are sequences of characters, so that case conversion is computed.
Str_chrome  == <<"c", "h", "r", "o", "m", "e">>
Str_Chrome  == <<"C", "h", "r", "o", "m", "e">>
Str_CHROME  == <<"C", "H", "R", "O", "M", "E">>
Str_firefox == <<"f", "i", "r", "e", "f", "o", "x">>
Str_Firefox == <<"F", "i", "r", "e", "f", "o", "x">>
Str_FIREFOX == <<"F", "I", "R", "E", "F", "O", "X">>
Str_safari  == <<"s", "a", "f", "a", "r", "i">>
Str_edge    == <<"e", "d", "g", "e">>

\* browser names a caller may pass to createDriver
BrowserNames ==
  { Str_chrome, Str_Chrome, Str_CHROME, Str_firefox, Str_Firefox, Str_FIREFOX,
    Str_safari, Str_edge, <<>> }

\* String.prototype.toLowerCase on one character
LowerChar(c) ==
  CASE c = "C" -> "c" [] c = "H" -> "h" [] c = "R" -> "r" [] c = "O" -> "o"
    [] c = "M" -> "m" [] c = "E" -> "e" [] c = "F" -> "f" [] c = "I" -> "i"
    [] c = "X" -> "x" [] OTHER -> c

\* String.prototype.toLowerCase
toLowerCase(s) == [i \in 1..Len(s) |-> LowerChar(s[i])]

\* the methods a JavaScript string has, among those createDriver calls
StringMethods == {"toLowerCase"}

\* the methods selenium's Builder has, among those createDriver calls
BuilderMethods == {"forBrowser", "setChromeOptions", "setFirefoxOptions", "build"}

(***************************************************************************)
(* State.                                                                  *)
(***************************************************************************)
VARIABLES
  driver,      \* WebDriverManager.driver: Null or the id of a session
  sessions,    \* every session launched so far; a session's id is its index
  lastCall,    \* the last WebDriverManager call and how it ended
  suite,       \* the mocha suite being run
  configBrowser, \* config.browser.name
  configHeadless, \* config.browser.headless
  pc,          \* where the mocha runner is in the current test
  testNo,      \* index of the current test in its suite
  testState,   \* this.currentTest.state: "none", "passed" or "failed"
  hookFailed,  \* a beforeEach hook of the suite has failed
  hookPos,     \* steps of the current afterEach hook already run
  testLog,     \* the session calls made for the current test, in order
  dom,         \* the page's element matching the locator under test
  browserUp,   \* the page object's session still answers commands
  call,        \* the BasePage call in progress, or the last one
  screen,      \* the application screen the browser shows
  usernameField, \* what has been typed into the user-name input
  passwordField, \* what has been typed into the password input
  errorBanner, \* the text of the login error banner, or "none"
  loginCall,   \* the last LoginPage call and how it ended
  lastLogin,   \* the login attempt the screen results from, if any
  shopScreen,  \* the shop screen the browser shows, once logged in
  appCart,     \* the application's cart: product names, in the order added
  pageCart,    \* the cart as the page last rendered it (badge, rows, buttons)
  appSort,     \* the sort option selected in the application
  pageOrder,   \* the product cards as the page last rendered them, in order
  expectedCart, \* what the test has put in the cart, by the calls that returned
  shopCall,    \* the ProductsPage or CartPage call in progress, or the last one
  navPending,  \* the screen a click has asked for and the page has yet to show
  form,        \* the checkout information form's three inputs
  formError,   \* the error banner of the checkout information form, or "none"
  checkoutCall, \* the CartPage checkout call in progress, or the last one
  captureCall, \* the ScreenshotUtils call in progress, or the last one
  screenshots, \* screenshot files written so far
  evidenceDocs, \* failure-evidence documents written so far
  csvFile,     \* test-data/users.csv as it is on disk
  jsonFile,    \* test-data/checkout-data.json as it is on disk
  readerCall,  \* the last TestDataReader call and how it ended
  reportCall   \* the last ReportGenerator.formatDuration call

mgrVars == <<driver, sessions, lastCall>>
testVars == <<suite, configBrowser, configHeadless, pc, testNo, testState,
              hookFailed, hookPos, testLog>>

pageVars == <<dom, browserUp, call>>

loginVars == <<screen, usernameField, passwordField, errorBanner, loginCall,
               lastLogin>>

\* the shop screens' state and the calls of ProductsPage and CartPage on it
cartVars == <<shopScreen, appCart, pageCart>>
listVars == <<appSort, pageOrder>>
shopVars == <<expectedCart, shopCall>>
checkoutVars == <<navPending, form, formError, checkoutCall>>
storeVars == <<cartVars, listVars, shopVars, checkoutVars>>

\* the utilities beside the page objects: diagnostic capture
captureVars == <<captureCall, screenshots, evidenceDocs>>
readerVars == <<csvFile, jsonFile, readerCall>>
reportVars == <<reportCall>>
utilVars == <<captureVars, readerVars, reportVars>>

vars == <<mgrVars, testVars, pageVars, loginVars, storeVars, utilVars>>

\* what each specification leaves alone
notMgr == <<testVars, pageVars, loginVars, storeVars, utilVars>>
notTest == <<lastCall, pageVars, loginVars, storeVars, utilVars>>
notPage == <<mgrVars, testVars, loginVars, storeVars, utilVars>>
notLogin == <<mgrVars, testVars, dom, call, storeVars, utilVars>>
notStore == <<mgrVars, testVars, dom, call, loginVars, utilVars>>
notUtil == <<mgrVars, testVars, dom, call, loginVars, storeVars>>
notCapture == <<notUtil, readerVars, reportVars>>
notReader == <<notUtil, browserUp, captureVars, reportVars>>
notReport == <<notUtil, browserUp, captureVars, readerVars>>

\* JavaScript's null and its strings, as values a page object returns
JsNull == [type |-> "null", s |-> ""]
JsStr(text) == [type |-> "string", s |-> text]

NoLogin == [username |-> "", password |-> "", outcome |-> "none"]

\* no LoginPage in use
LoginIdle ==
  /\ screen = "blank"
  /\ usernameField = <<>>
  /\ passwordField = <<>>
  /\ errorBanner = "none"
  /\ loginCall = [op |-> "none", outcome |-> "idle", value |-> JsNull,
                  probe |-> FALSE, error |-> <<>>]
  /\ lastLogin = NoLogin

NoCall == [op |-> "none"]

\* no WebDriverManager in use
MgrIdle ==
  /\ driver = Null
  /\ sessions = <<>>
  /\ lastCall = NoCall

\* the mocha runner is not running
TestIdle ==
  /\ suite = "none"
  /\ configBrowser = Str_chrome
  /\ configHeadless = FALSE
  /\ pc = "idle"
  /\ testNo = 0
  /\ testState = "none"
  /\ hookFailed = FALSE
  /\ hookPos = 0
  /\ testLog = <<>>

\* a page on which the locator matches nothing
EmptyDom == [present |-> FALSE, enabled |-> FALSE, displayed |-> FALSE, gen |-> 1]

NoError == [type |-> "none", message |-> <<>>]

\* no BasePage call made yet
IdleCall ==
  [op |-> "none", elementName |-> "element", step |-> "none", stepNo |-> 0,
   polls |-> 0, element |-> 0, locatedSeen |-> FALSE, enabledSeen |-> FALSE,
   clicked |-> FALSE, outcome |-> "idle", error |-> NoError,
   value |-> 0, found |-> FALSE, seen |-> EmptyDom, seenUp |-> TRUE]

\* no BasePage primitive in use
PageIdle ==
  /\ dom = EmptyDom
  /\ browserUp = TRUE
  /\ call = IdleCall

\* the products the tests name, in the order the inventory page first shows
\* them (by name, A to Z)
Backpack == "Sauce Labs Backpack"
BikeLight == "Sauce Labs Bike Light"
BoltTShirt == "Sauce Labs Bolt T-Shirt"
Catalog == <<Backpack, BikeLight, BoltTShirt>>

\* what the test expects the cart to hold; valid until a call fails the test
NothingExpected == [valid |-> TRUE, names |-> {}]

\* no ProductsPage or CartPage call made yet
IdleShopCall ==
  [op |-> "none", arg |-> "", step |-> "none", stepNo |-> 0, polls |-> 0,
   currentCartCount |-> 0, buttonId |-> <<>>, enumerated |-> FALSE,
   clicked |-> FALSE, skipped |-> {}, outcome |-> "idle", error |-> NoError,
   count |-> 0, list |-> <<>>,
   startCart |-> <<>>, startBadge |-> 0, endCart |-> <<>>, endBadge |-> 0,
   seenOrder |-> <<>>,
   prevOp |-> "none", prevArg |-> "", prevOutcome |-> "idle", prevList |-> <<>>]

\* the checkout information form with nothing typed
EmptyForm == [firstName |-> <<>>, lastName |-> <<>>, postalCode |-> <<>>]

NoSummary == [subtotal |-> 0, tax |-> 0, total |-> 0]

\* no checkout call made yet
IdleCheckoutCall ==
  [op |-> "none", info |-> [firstName |-> "", lastName |-> "", postalCode |-> ""],
   stage |-> "none", step |-> "none", stepNo |-> 0, stageNo |-> 0, polls |-> 0,
   clicked |-> FALSE, waitTimedOut |-> FALSE,
   outcome |-> "idle", error |-> NoError, stageLog |-> <<>>,
   orderSummary |-> NoSummary, summaryScreen |-> "none", completion |-> "",
   startScreen |-> "cart", endScreen |-> "cart",
   submitted |-> [firstName |-> "", lastName |-> "", postalCode |-> ""],
   expectedSubtotal |-> -1, subtotalScreen |-> "none"]

\* no ScreenshotUtils call made yet
IdleCaptureCall ==
  [op |-> "none", step |-> "none", stepNo |-> 0, outcome |-> "idle",
   value |-> "none", screenshotPath |-> "none", written |-> FALSE,
   failedAt |-> "none", deadAtStart |-> FALSE]

\* a JSON list, or the undefined of a key the document does not have
Undefined == [present |-> FALSE, items |-> <<>>]
JsList(items) == [present |-> TRUE, items |-> items]

\* users.csv with a header and two users; checkout-data.json with one
\* scenario and one checkout record
GoodCsvFile ==
  [state |-> "ok",
   lines |-> << <<"username", ",", "password", ",", "expectedResult">>,
                <<"standard_user", ",", "secret_sauce", ",", "success">>,
                <<"locked_out_user", ",", "secret_sauce", ",", "error">> >>]

GoodJsonFile ==
  [state |-> "ok", shoppingScenarios |-> JsList(<<"scenario 1">>),
   validCheckoutData |-> JsList(<<"checkout 1">>)]

\* no TestDataReader call made yet
IdleReaderCall ==
  [op |-> "none", outcome |-> "idle",
   error |-> [type |-> "none", message |-> <<>>],
   rows |-> <<>>, items |-> <<>>, skippedRows |-> {}]

\* no reader in use
ReaderIdle ==
  /\ csvFile = GoodCsvFile
  /\ jsonFile = GoodJsonFile
  /\ readerCall = IdleReaderCall

\* no capture in use
CaptureIdle ==
  /\ captureCall = IdleCaptureCall
  /\ screenshots = 0
  /\ evidenceDocs = 0

\* no duration formatted yet
IdleReportCall ==
  [op |-> "none", duration |-> 0, unit |-> "none", minutes |-> 0,
   seconds |-> 0, tenths |-> 0, ms |-> 0]

\* no report in the making
ReportIdle == reportCall = IdleReportCall

\* no utility in use
UtilIdle ==
  /\ CaptureIdle
  /\ ReaderIdle
  /\ ReportIdle

\* no shop page object in use: logged in, on the inventory, cart empty
StoreIdle ==
  /\ UtilIdle
  /\ shopScreen = "inventory"
  /\ appCart = <<>>
  /\ pageCart = <<>>
  /\ appSort = "az"
  /\ pageOrder = Catalog
  /\ expectedCart = NothingExpected
  /\ shopCall = IdleShopCall
  /\ navPending = "none"
  /\ form = EmptyForm
  /\ formError = "none"
  /\ checkoutCall = IdleCheckoutCall

\* the ids of the sessions whose browser is still running
LiveSessions == {i \in 1..Len(sessions) : sessions[i].live}

(***************************************************************************)
(* WebDriverManager.createDriver                                           *)
(***************************************************************************)
\* arguments createDriver puts on the chrome command line
ChromeArguments(headless) ==
  (IF headless THEN {"--headless"} ELSE {}) \cup
  {"--no-sandbox", "--disable-dev-shm-usage", "--disable-gpu",
   "--window-size=1920,1080"}

FirefoxArguments(headless) ==
  (IF headless THEN {"--headless"} ELSE {}) \cup {"--width=1920", "--height=1080"}

\* the implicit element-wait createDriver sets, in ms
ImplicitWaitMs == 10000

\* a freshly built session; no timeouts configured yet
NewSession(browser, args) ==
  [browser |-> browser, args |-> args, implicit |-> 0, live |-> TRUE]

\* The result of createDriver(browserName, headless) in manager state (d, ss).
\* buildOk: Builder.build() resolves; timeoutsOk: setTimeouts resolves.
\* A result is [outcome, error, value, driver, sessions].
Threw(err, d, ss) ==
  [outcome |-> "threw", error |-> err, value |-> Null, driver |-> d, sessions |-> ss]

Returned(v, d, ss) ==
  [outcome |-> "returned", error |-> "none", value |-> v, driver |-> d, sessions |-> ss]

\* lines 56-60: setTimeouts on this.driver, then return it
ApplyImplicitWait(d, ss, timeoutsOk) ==
  IF timeoutsOk
    THEN Returned(d, d, [ss EXCEPT ![d].implicit = ImplicitWaitMs])
    ELSE Threw("WebDriverError", d, ss)

createDriver(d, ss, browserName, headless, buildOk, timeoutsOk) ==
  IF toLowerCase(browserName) = Str_chrome
    THEN IF buildOk
           THEN ApplyImplicitWait(Len(ss) + 1,
                  Append(ss, NewSession("chrome", ChromeArguments(headless))),
                  timeoutsOk)
           ELSE Threw("SessionNotCreatedError", d, ss)
    ELSE IF "toLowercase" \notin StringMethods
      THEN \* browserName.toLowercase is not a function
           Threw("TypeError", d, ss)
    ELSE IF toLowerCase(browserName) = Str_firefox
      THEN IF "addArguments" \notin BuilderMethods
             THEN Threw("TypeError", d, ss)
           ELSE IF buildOk
             THEN ApplyImplicitWait(Len(ss) + 1,
                    Append(ss, NewSession("firefox", FirefoxArguments(headless))),
                    timeoutsOk)
             ELSE Threw("SessionNotCreatedError", d, ss)
    ELSE Threw("UnsupportedBrowser", d, ss)

(***************************************************************************)
(* WebDriverManager.quitDriver                                             *)
(***************************************************************************)
\* driver.quit() on session d: it rejects when the session is already gone, or
\* when the quit command fails (quitOk = FALSE).  selenium-webdriver invalidates
\* the session and kills the driver service in a finally clause, so the
\* session is over however the command ends.
DriverQuit(d, ss, quitOk) ==
  [threw |-> ~ss[d].live \/ ~quitOk,
   sessions |-> [ss EXCEPT ![d].live = FALSE]]

\* quitDriver without its try/catch: a failure of driver.quit() escapes
quitDriver_NoCatch(d, ss, quitOk) ==
  IF d # Null
    THEN LET q == DriverQuit(d, ss, quitOk) IN
         IF q.threw
           THEN [outcome |-> "threw", error |-> "WebDriverError",
                 log |-> "none", sessions |-> q.sessions]
           ELSE [outcome |-> "returned", error |-> "none",
                 log |-> "Browser closed successfully", sessions |-> q.sessions]
    ELSE [outcome |-> "returned", error |-> "none", log |-> "none", sessions |-> ss]

\* A result is [outcome, error, log, sessions].
quitDriver(d, ss, quitOk) ==
  IF d # Null
    THEN LET q == DriverQuit(d, ss, quitOk) IN
         IF q.threw
           THEN \* catch (error): console.error only
                [outcome |-> "returned", error |-> "none",
                 log |-> "Error closing browser", sessions |-> q.sessions]
           ELSE [outcome |-> "returned", error |-> "none",
                 log |-> "Browser closed successfully", sessions |-> q.sessions]
    ELSE [outcome |-> "returned", error |-> "none", log |-> "none", sessions |-> ss]

(***************************************************************************)
(* One WebDriverManager under any sequence of calls.                       *)
(***************************************************************************)
MgrInit ==
  /\ driver = Null
  /\ sessions = <<>>
  /\ lastCall = NoCall

CreateDriverCall ==
  \E browserName \in BrowserNames, headless \in BOOLEAN,
     buildOk \in BOOLEAN, timeoutsOk \in BOOLEAN :
    /\ Len(sessions) < MaxSessions
    /\ LET r == createDriver(driver, sessions, browserName, headless,
                             buildOk, timeoutsOk) IN
       /\ driver' = r.driver
       /\ sessions' = r.sessions
       /\ lastCall' = [op |-> "createDriver", browserName |-> browserName,
                       headless |-> headless, envOk |-> buildOk /\ timeoutsOk,
                       before |-> Len(sessions),
                       outcome |-> r.outcome, error |-> r.error, value |-> r.value]
    /\ UNCHANGED notMgr

QuitDriverCall ==
  \E quitOk \in BOOLEAN :
    LET r == quitDriver(driver, sessions, quitOk) IN
    /\ sessions' = r.sessions
    /\ lastCall' = [op |-> "quitDriver", hadDriver |-> driver # Null,
                    wasLive |-> driver # Null /\ sessions[driver].live,
                    outcome |-> r.outcome, error |-> r.error, log |-> r.log]
    /\ UNCHANGED <<driver, notMgr>>

\* getDriver(): returns this.driver
GetDriverCall ==
  /\ lastCall' = [op |-> "getDriver", outcome |-> "returned", error |-> "none",
                  value |-> driver]
  /\ UNCHANGED <<driver, sessions, notMgr>>

MgrNext == CreateDriverCall \/ QuitDriverCall \/ GetDriverCall

\* a new WebDriverManager, outside any test run
InitManager == MgrInit /\ TestIdle /\ PageIdle /\ LoginIdle /\ StoreIdle

SpecManager == InitManager /\ [][MgrNext]_vars

(***************************************************************************)
(* Claims about WebDriverManager.                                          *)
(***************************************************************************)
\* the browsers createDriver documents as supported: 'chrome' or 'firefox'
SupportedBrowser(name) == toLowerCase(name) \in {Str_chrome, Str_firefox}

\* C1: createDriver fails with the 'unsupported browser' error exactly when the
\* browser name is not a supported one, and for a supported name (any letter
\* case), when the browser launches, it starts a new session, applies the
\* implicit wait, stores the session in the manager and returns it.
C1_CreateDriverContract ==
  lastCall.op = "createDriver" =>
    /\ (lastCall.outcome = "threw" /\ lastCall.error = "UnsupportedBrowser")
          <=> ~SupportedBrowser(lastCall.browserName)
    /\ (SupportedBrowser(lastCall.browserName) /\ lastCall.envOk) =>
          /\ lastCall.outcome = "returned"
          /\ driver = lastCall.before + 1
          /\ lastCall.value = driver
          /\ sessions[driver].live
          /\ sessions[driver].implicit = ImplicitWaitMs

\* C2: quitDriver never throws to its caller: not with no driver, not when
\* driver.quit() fails, not when called again after an earlier quitDriver.
C2_QuitDriverNeverThrows ==
  lastCall.op = "quitDriver" =>
    /\ lastCall.outcome = "returned"
    /\ lastCall.error = "none"

\* a second quitDriver, on a session already quit: the failure is logged
C2_Witness ==
  /\ lastCall.op = "quitDriver"
  /\ lastCall.hadDriver
  /\ ~lastCall.wasLive
  /\ lastCall.log = "Error closing browser"
  /\ lastCall.outcome = "returned"

\* C3: after any sequence of createDriver and quitDriver calls at most one
\* session of the manager is live, and none that the manager does not reference.
C3_AtMostOneLiveSession ==
  /\ Cardinality(LiveSessions) <= 1
  /\ \A s \in LiveSessions : s = driver

(***************************************************************************)
(* ScreenshotUtils: diagnostic capture.                                    *)
(***************************************************************************)
\* takeScreenshot: the screenshot's path, or "null" when the screenshot or its
\* file write fails (try/catch around the whole body)
takeScreenshot(shotOk) == IF shotOk THEN "path" ELSE "null"

\* captureFailureEvidence.  readsOk: getCurrentUrl, getTitle and getPageSource
\* resolve; writeOk: the evidence file is written.  Everything is inside one
\* try/catch; path.basename(screenshotPath) after the write throws on a null
\* path.  A result is [outcome, value, written].
captureFailureEvidence(shotOk, readsOk, writeOk) ==
  LET screenshotPath == takeScreenshot(shotOk) IN
  IF ~readsOk
    THEN [outcome |-> "returned", value |-> "null", written |-> FALSE]
  ELSE IF ~writeOk
    THEN [outcome |-> "returned", value |-> "null", written |-> FALSE]
  ELSE IF screenshotPath = "null"
    THEN [outcome |-> "returned", value |-> "null", written |-> TRUE]
  ELSE [outcome |-> "returned", value |-> "evidence", written |-> TRUE]

(***************************************************************************)
(* The mocha suites: beforeEach, the test body, afterEach.                 *)
(***************************************************************************)
Suites == {"basic", "login", "products", "cart", "enhanced"}

\* The tests of each suite, in file order.  A "catching" test wraps its body
\* in try/catch and captures failure evidence before rethrowing; an "empty"
\* test has no body.
SuiteTests(s) ==
  CASE s = "basic"    -> <<"plain", "plain">>
    [] s = "login"    -> <<"plain", "plain", "plain", "plain", "plain">>
    [] s = "products" -> <<"plain", "plain", "plain", "plain", "plain", "plain",
                           "plain", "plain">>
    [] s = "cart"     -> <<"plain", "plain", "plain", "plain", "plain">>
    [] s = "enhanced" -> <<"catching", "catching", "empty", "empty">>

\* suites whose beforeEach also opens the login page and logs in
SetupLogsIn(s) == s \in {"products", "cart"}

\* config.browser.name comes from the environment, "chrome" by default
ConfigBrowsers == {Str_chrome, Str_firefox, Str_safari}

\* the browser a suite's beforeEach asks for
SuiteBrowser(s) == IF s = "basic" THEN Str_chrome ELSE configBrowser
SuiteHeadless(s) == IF s = "basic" THEN FALSE ELSE configHeadless

\* how a test body can end
BodyOutcomes(kind) ==
  IF kind = "empty" THEN {"passed"} ELSE {"passed", "assertionFailed", "threw"}

\* an afterEach hook that tears the session down before it captures
afterEachSteps_QuitFirst(s, state) ==
  IF s = "enhanced" /\ state = "failed"
    THEN <<"quitDriver", "captureFailureEvidence">>
    ELSE <<"quitDriver">>

\* an afterEach hook that tears the session down only for a test that passed
afterEachSteps_QuitOnlyOnPass(s, state) ==
  IF s = "enhanced" /\ state = "failed"
    THEN <<"captureFailureEvidence">>
    ELSE IF state = "failed" THEN <<>> ELSE <<"quitDriver">>

\* the calls of a suite's afterEach hook, in order
afterEachSteps(s, state) ==
  IF s = "enhanced" /\ state = "failed"
    THEN <<"captureFailureEvidence", "quitDriver">>
    ELSE <<"quitDriver">>

TestInit ==
  /\ suite \in Suites
  /\ configBrowser \in ConfigBrowsers
  /\ configHeadless \in BOOLEAN
  /\ pc = "beforeEach"
  /\ testNo = 1
  /\ testState = "none"
  /\ hookFailed = FALSE
  /\ hookPos = 0
  /\ testLog = <<>>
  /\ driver = Null
  /\ sessions = <<>>
  /\ lastCall = NoCall
  /\ PageIdle
  /\ LoginIdle
  /\ StoreIdle

\* beforeEach: a new WebDriverManager, then createDriver
BeforeEach ==
  /\ pc = "beforeEach"
  /\ Len(sessions) < MaxSessions
  /\ \E buildOk \in BOOLEAN, timeoutsOk \in BOOLEAN :
       LET r == createDriver(Null, sessions, SuiteBrowser(suite),
                             SuiteHeadless(suite), buildOk, timeoutsOk) IN
       /\ driver' = r.driver
       /\ sessions' = r.sessions
       /\ testLog' = <<"createDriver">>
       /\ testState' = "none"
       /\ hookPos' = 0
       /\ IF r.outcome = "threw"
            THEN hookFailed' = TRUE /\ pc' = "afterEach"
            ELSE /\ hookFailed' = FALSE
                 /\ pc' = IF SetupLogsIn(suite) THEN "setupLogin" ELSE "body"
  /\ UNCHANGED <<suite, configBrowser, configHeadless, testNo, notTest>>

\* the rest of a beforeEach that logs in: loginPage.open(), loginPage.login()
SetupLogin ==
  /\ pc = "setupLogin"
  /\ \E ok \in BOOLEAN :
       IF ok THEN pc' = "body" /\ UNCHANGED hookFailed
             ELSE pc' = "afterEach" /\ hookFailed' = TRUE
  /\ UNCHANGED <<suite, configBrowser, configHeadless, testNo, testState,
                 hookPos, testLog, driver, sessions, notTest>>

\* the test body runs to its end, fails an assertion or throws
Body ==
  /\ pc = "body"
  /\ \E outcome \in BodyOutcomes(SuiteTests(suite)[testNo]) :
       IF outcome = "passed"
         THEN testState' = "passed" /\ pc' = "afterEach"
       ELSE IF SuiteTests(suite)[testNo] = "catching"
         THEN testState' = testState /\ pc' = "catch"
       ELSE testState' = "failed" /\ pc' = "afterEach"
  /\ UNCHANGED <<suite, configBrowser, configHeadless, testNo, hookFailed,
                 hookPos, testLog, driver, sessions, notTest>>

\* catch (error) of a catching test: capture the evidence, rethrow
Catch ==
  /\ pc = "catch"
  /\ \E shotOk \in BOOLEAN, readsOk \in BOOLEAN, writeOk \in BOOLEAN :
       LET c == captureFailureEvidence(shotOk, readsOk, writeOk) IN
       /\ testLog' = Append(testLog, "captureFailureEvidence")
       /\ testState' = "failed"
       /\ pc' = "afterEach"
  /\ UNCHANGED <<suite, configBrowser, configHeadless, testNo, hookFailed,
                 hookPos, driver, sessions, notTest>>

\* the next call of the afterEach hook; a call that throws ends the hook
AfterEachCapture ==
  /\ pc = "afterEach"
  /\ hookPos < Len(afterEachSteps(suite, testState))
  /\ afterEachSteps(suite, testState)[hookPos + 1] = "captureFailureEvidence"
  /\ \E shotOk \in BOOLEAN, readsOk \in BOOLEAN, writeOk \in BOOLEAN :
       LET c == captureFailureEvidence(shotOk, readsOk, writeOk) IN
       /\ testLog' = Append(testLog, "captureFailureEvidence")
       /\ IF c.outcome = "threw"
            THEN pc' = "testEnd" /\ hookPos' = hookPos
            ELSE pc' = pc /\ hookPos' = hookPos + 1
  /\ UNCHANGED <<suite, configBrowser, configHeadless, testNo, testState,
                 hookFailed, driver, sessions, notTest>>

AfterEachQuit ==
  /\ pc = "afterEach"
  /\ hookPos < Len(afterEachSteps(suite, testState))
  /\ afterEachSteps(suite, testState)[hookPos + 1] = "quitDriver"
  /\ \E quitOk \in BOOLEAN :
       LET r == quitDriver(driver, sessions, quitOk) IN
       /\ sessions' = r.sessions
       /\ testLog' = Append(testLog, "quitDriver")
       /\ IF r.outcome = "threw"
            THEN pc' = "testEnd" /\ hookPos' = hookPos
            ELSE pc' = pc /\ hookPos' = hookPos + 1
  /\ UNCHANGED <<suite, configBrowser, configHeadless, testNo, testState,
                 hookFailed, driver, notTest>>

\* the afterEach hook has run all its calls
AfterEachEnd ==
  /\ pc = "afterEach"
  /\ hookPos = Len(afterEachSteps(suite, testState))
  /\ pc' = "testEnd"
  /\ UNCHANGED <<suite, configBrowser, configHeadless, testNo, testState,
                 hookFailed, hookPos, testLog, driver, sessions, notTest>>

\* mocha goes on to the next test; a failed beforeEach ends the suite
NextTest ==
  /\ pc = "testEnd"
  /\ IF hookFailed \/ testNo = Len(SuiteTests(suite))
       THEN pc' = "done" /\ testNo' = testNo
       ELSE pc' = "beforeEach" /\ testNo' = testNo + 1
  /\ UNCHANGED <<suite, configBrowser, configHeadless, testState, hookFailed,
                 hookPos, testLog, driver, sessions, notTest>>

TestNext ==
  \/ BeforeEach \/ SetupLogin \/ Body \/ Catch
  \/ AfterEachCapture \/ AfterEachQuit \/ AfterEachEnd \/ NextTest

\* mocha runs every hook and test it has scheduled
SpecTests == TestInit /\ [][TestNext]_vars /\ WF_vars(TestNext)

\* the current test's setup created a session
SetupCreatedSession == pc # "beforeEach" /\ driver # Null

\* C4: teardown is unconditional: for every test whose setup created a
\* session, however the body ends, afterEach reaches quitDriver (so once the
\* hook is over quitDriver was called and the session is not live), and every
\* live session is eventually no longer live.
C4_TeardownUnconditional ==
  /\ [](pc \in {"testEnd", "done"} /\ SetupCreatedSession =>
          /\ \E i \in 1..Len(testLog) : testLog[i] = "quitDriver"
          /\ driver \notin LiveSessions)
  /\ \A s \in 1..MaxSessions :
       (s \in LiveSessions) ~> (s \notin LiveSessions)

\* a failed test is over and its session has been quit
C4_Witness ==
  /\ pc = "testEnd"
  /\ testState = "failed"
  /\ SetupCreatedSession
  /\ testLog[Len(testLog)] = "quitDriver"
  /\ driver \notin LiveSessions

\* the places of a call in the current test's log
LogPlaces(name) == {i \in 1..Len(testLog) : testLog[i] = name}

\* C23: for a failed test, quitDriver is never called before a
\* captureFailureEvidence call of that test: every capture in the test's log
\* precedes every quitDriver, and in the suite that captures, a failed test
\* whose session was torn down has captured before.
C23_CaptureBeforeTeardown ==
  /\ \A i \in LogPlaces("quitDriver") :
       \A j \in LogPlaces("captureFailureEvidence") : j < i
  /\ suite = "enhanced" /\ testState = "failed" /\ LogPlaces("quitDriver") # {}
       => LogPlaces("captureFailureEvidence") # {}

\* C23: a failed test of the capturing suite is over: captured, then quit
C23_Witness ==
  /\ suite = "enhanced"
  /\ pc = "testEnd"
  /\ testState = "failed"
  /\ LogPlaces("captureFailureEvidence") # {}
  /\ LogPlaces("quitDriver") = {Len(testLog)}

\* C29: once a test of the capturing suite is over, captureFailureEvidence
\* was called exactly once if the test failed and not at all if it passed.
C29_OneEvidencePerFailedTest ==
  suite = "enhanced" /\ pc = "testEnd" =>
    /\ testState = "failed" => Cardinality(LogPlaces("captureFailureEvidence")) = 1
    /\ testState = "passed" => LogPlaces("captureFailureEvidence") = {}

(***************************************************************************)
(* The driver, as BasePage sees it.  The page holds at most one element    *)
(* matching the locator; dom.gen names it, and a re-render replaces it by  *)
(* a new one, leaving references to the old one stale.                     *)
(***************************************************************************)
\* a driver-level lookup: driver.findElement(locator)
DriverFindElement(dm, up) ==
  IF ~up
    THEN [threw |-> TRUE, el |-> 0,
          error |-> [type |-> "WebDriverError", message |-> <<"session not reachable">>]]
  ELSE IF ~dm.present
    THEN [threw |-> TRUE, el |-> 0,
          error |-> [type |-> "NoSuchElementError",
                     message |-> <<"no such element: Unable to locate element">>]]
  ELSE [threw |-> FALSE, el |-> dm.gen, error |-> [type |-> "none", message |-> <<>>]]

\* whether the element reference el is still attached to the page
Attached(el, dm) == dm.present /\ dm.gen = el

\* a command sent to an element reference: it throws on a dead session and on
\* a stale reference
ElementCommand(el, dm, up) ==
  IF ~up
    THEN [threw |-> TRUE,
          error |-> [type |-> "WebDriverError", message |-> <<"session not reachable">>]]
  ELSE IF ~Attached(el, dm)
    THEN [threw |-> TRUE,
          error |-> [type |-> "StaleElementReferenceError",
                     message |-> <<"stale element reference">>]]
  ELSE [threw |-> FALSE, error |-> [type |-> "none", message |-> <<>>]]

\* BasePage.timeout, in ms
timeout == 15000

\* One poll of driver.wait(condition, timeout, message): a condition that
\* throws rejects the wait, a truthy one resolves it, a falsy one is polled
\* again until the deadline, when the wait rejects with a TimeoutError.
WaitPoll(condThrew, condValue, polls, maxPolls) ==
  IF condThrew THEN "error"
  ELSE IF condValue THEN "satisfied"
  ELSE IF polls < maxPolls THEN "pending"
  ELSE "timeout"

\* whether a message, a sequence of string parts, contains the part
Contains(message, part) == \E i \in 1..Len(message) : message[i] = part

(***************************************************************************)
(* BasePage.findElement                                                    *)
(***************************************************************************)
\* findElement that lets the driver's error through
findElement_Rethrow(dm, up, elementName) ==
  LET r == DriverFindElement(dm, up) IN
  IF r.threw
    THEN [outcome |-> "threw", value |-> 0, error |-> r.error]
    ELSE [outcome |-> "returned", value |-> r.el, error |-> NoError]

\* A result is [outcome, value, error].
findElement(dm, up, elementName) ==
  LET r == DriverFindElement(dm, up) IN
  IF r.threw
    THEN [outcome |-> "threw", value |-> 0,
          error |-> [type |-> "Error",
                     message |-> <<"Element '", elementName, "' not found">>]]
    ELSE [outcome |-> "returned", value |-> r.el, error |-> NoError]

(***************************************************************************)
(* BasePage.isElementDisplayed: two driver calls inside one try/catch.     *)
(***************************************************************************)
\* driver.findElement(locator); a failure is caught and gives false
isElementDisplayedFind(dm, up) ==
  LET r == DriverFindElement(dm, up) IN
  IF r.threw
    THEN [done |-> TRUE, outcome |-> "returned", value |-> FALSE, el |-> 0,
          error |-> NoError]
    ELSE [done |-> FALSE, outcome |-> "running", value |-> FALSE, el |-> r.el,
          error |-> NoError]

\* element.isDisplayed() outside the try/catch
isElementDisplayedRead_NoCatch(el, dm, up) ==
  LET r == ElementCommand(el, dm, up) IN
  IF r.threw
    THEN [outcome |-> "threw", value |-> FALSE, error |-> r.error]
    ELSE [outcome |-> "returned", value |-> dm.displayed, error |-> NoError]

\* element.isDisplayed(); a failure is caught and gives false
isElementDisplayedRead(el, dm, up) ==
  LET r == ElementCommand(el, dm, up) IN
  IF r.threw
    THEN [outcome |-> "returned", value |-> FALSE, error |-> NoError]
    ELSE [outcome |-> "returned", value |-> dm.displayed, error |-> NoError]

(***************************************************************************)
(* BasePage.clickElement                                                   *)
(***************************************************************************)
\* clickElement without the wait for the element to be enabled
clickElementSteps_NoEnabledWait == <<"waitLocated", "click">>

\* the awaited steps of clickElement, in order
clickElementSteps == <<"waitLocated", "waitEnabled", "click">>

\* the step after step number i of a call, or "done"
StepAfter(steps, i) == IF i < Len(steps) THEN i + 1 ELSE 0

(***************************************************************************)
(* BasePage primitives against a page that changes on its own.             *)
(***************************************************************************)
\* polls a wait makes before its deadline
MaxPolls == 2
\* re-renders of the element one exploration sees
MaxRenders == 3

\* names callers give their elements; "element" is the default
ElementNames == {"element", "login button"}

Ops == {"findElement", "clickElement", "isElementDisplayed",
        "waitForElementToDisappear"}

\* the first step of each operation
FirstStep(op) ==
  CASE op = "findElement" -> "find"
    [] op = "clickElement" -> clickElementSteps[1]
    [] op = "isElementDisplayed" -> "find"
    [] op = "waitForElementToDisappear" -> "find"

NewCall(op, elementName) ==
  [op |-> op, elementName |-> elementName, step |-> FirstStep(op), stepNo |-> 1,
   polls |-> 0, element |-> 0, locatedSeen |-> FALSE, enabledSeen |-> FALSE,
   clicked |-> FALSE, outcome |-> "running", error |-> NoError,
   value |-> 0, found |-> FALSE, seen |-> dom, seenUp |-> browserUp]

PageInit ==
  /\ dom \in {[present |-> p, enabled |-> e, displayed |-> d, gen |-> 1] :
               p \in BOOLEAN, e \in BOOLEAN, d \in BOOLEAN}
  /\ dom.present \/ (~dom.enabled /\ ~dom.displayed)
  /\ browserUp = TRUE
  /\ call = IdleCall
  /\ MgrIdle
  /\ TestIdle
  /\ LoginIdle
  /\ StoreIdle

\* the page changes under the test: the element appears, goes, is replaced by
\* a re-render, or changes its enabled and displayed state
PageChange ==
  /\ \E p \in BOOLEAN, e \in BOOLEAN, d \in BOOLEAN, replaced \in BOOLEAN :
       /\ p \/ (~e /\ ~d)
       /\ ~dom.present => replaced = p
       /\ ~p => ~replaced
       /\ replaced => dom.gen < MaxRenders
       /\ dom' = [present |-> p, enabled |-> e, displayed |-> d,
                  gen |-> IF replaced THEN dom.gen + 1 ELSE dom.gen]
       /\ dom' # dom
  /\ UNCHANGED <<browserUp, call, notPage>>

\* the browser or its session dies
BrowserDies ==
  /\ browserUp
  /\ browserUp' = FALSE
  /\ UNCHANGED <<dom, call, notPage>>

Running(op, step) ==
  /\ call.op = op
  /\ call.outcome = "running"
  /\ call.step = step

\* the test calls a primitive
StartCall ==
  /\ call.outcome # "running"
  /\ \E op \in Ops, elementName \in ElementNames : call' = NewCall(op, elementName)
  /\ UNCHANGED <<dom, browserUp, notPage>>

Finish(c, outcome, value, error) ==
  [c EXCEPT !.outcome = outcome, !.value = value, !.error = error,
            !.seen = dom, !.seenUp = browserUp]

FindElementStep ==
  /\ Running("findElement", "find")
  /\ LET r == findElement(dom, browserUp, call.elementName) IN
     call' = Finish([call EXCEPT !.element = r.value], r.outcome, r.value, r.error)
  /\ UNCHANGED <<dom, browserUp, notPage>>

\* lines 206-210: driver.wait(until.elementLocated(locator), ...)
ClickWaitLocated ==
  /\ Running("clickElement", "waitLocated")
  /\ LET r == DriverFindElement(dom, browserUp)
         w == WaitPoll(r.threw /\ r.error.type # "NoSuchElementError",
                       ~r.threw, call.polls, MaxPolls)
         n == StepAfter(clickElementSteps, call.stepNo) IN
     call' =
       CASE w = "satisfied" ->
              [call EXCEPT !.element = r.el, !.locatedSeen = TRUE, !.polls = 0,
                           !.stepNo = n, !.step = clickElementSteps[n]]
         [] w = "pending" -> [call EXCEPT !.polls = @ + 1]
         [] w = "timeout" ->
              Finish(call, "threw", 0,
                     [type |-> "TimeoutError",
                      message |-> <<call.elementName, " not found within ",
                                    timeout, "ms">>])
         [] w = "error" -> Finish(call, "threw", 0, r.error)
  /\ UNCHANGED <<dom, browserUp, notPage>>

\* lines 212-216: driver.wait(until.elementIsEnabled(element), ...)
ClickWaitEnabled ==
  /\ Running("clickElement", "waitEnabled")
  /\ LET r == ElementCommand(call.element, dom, browserUp)
         w == WaitPoll(r.threw, dom.enabled, call.polls, MaxPolls)
         n == StepAfter(clickElementSteps, call.stepNo) IN
     call' =
       CASE w = "satisfied" ->
              [call EXCEPT !.enabledSeen = TRUE, !.polls = 0,
                           !.stepNo = n, !.step = clickElementSteps[n]]
         [] w = "pending" -> [call EXCEPT !.polls = @ + 1]
         [] w = "timeout" ->
              Finish(call, "threw", 0,
                     [type |-> "TimeoutError",
                      message |-> <<call.elementName, " not clickable within ",
                                    timeout, "ms">>])
         [] w = "error" -> Finish(call, "threw", 0, r.error)
  /\ UNCHANGED <<dom, browserUp, notPage>>

\* line 218: element.click(); the browser may refuse the click
ClickDispatch ==
  /\ Running("clickElement", "click")
  /\ \E intercepted \in BOOLEAN :
       LET r == ElementCommand(call.element, dom, browserUp) IN
       call' =
         IF r.threw THEN Finish(call, "threw", 0, r.error)
         ELSE IF intercepted
           THEN Finish(call, "threw", 0,
                       [type |-> "ElementClickInterceptedError",
                        message |-> <<"element click intercepted">>])
         ELSE Finish([call EXCEPT !.clicked = TRUE], "returned", 0, NoError)
  /\ UNCHANGED <<dom, browserUp, notPage>>

DisplayedFind ==
  /\ Running("isElementDisplayed", "find")
  /\ LET r == isElementDisplayedFind(dom, browserUp) IN
     call' =
       IF r.done THEN Finish(call, r.outcome, r.value, r.error)
       ELSE [call EXCEPT !.element = r.el, !.found = TRUE, !.step = "isDisplayed"]
  /\ UNCHANGED <<dom, browserUp, notPage>>

DisplayedRead ==
  /\ Running("isElementDisplayed", "isDisplayed")
  /\ LET r == isElementDisplayedRead(call.element, dom, browserUp) IN
     call' = Finish(call, r.outcome, r.value, r.error)
  /\ UNCHANGED <<dom, browserUp, notPage>>

\* line 276: driver.findElement(locator) inside the try; absence is caught
DisappearFind ==
  /\ Running("waitForElementToDisappear", "find")
  /\ LET r == DriverFindElement(dom, browserUp) IN
     call' =
       IF r.threw THEN Finish(call, "returned", 0, NoError)
       ELSE [call EXCEPT !.element = r.el, !.found = TRUE, !.step = "waitStale"]
  /\ UNCHANGED <<dom, browserUp, notPage>>

\* lines 275-282: driver.wait(until.stalenessOf(element), timeout); every
\* error of the wait, its TimeoutError included, is caught
DisappearWait ==
  /\ Running("waitForElementToDisappear", "waitStale")
  /\ LET r == ElementCommand(call.element, dom, browserUp)
         stale == r.threw /\ r.error.type = "StaleElementReferenceError"
         w == WaitPoll(r.threw /\ ~stale, stale, call.polls, MaxPolls) IN
     call' =
       CASE w = "satisfied" -> Finish(call, "returned", 0, NoError)
         [] w = "pending" -> [call EXCEPT !.polls = @ + 1]
         [] w = "timeout" -> Finish(call, "returned", 0, NoError)
         [] w = "error" -> Finish(call, "returned", 0, NoError)
  /\ UNCHANGED <<dom, browserUp, notPage>>

PageNext ==
  \/ PageChange \/ BrowserDies \/ StartCall \/ FindElementStep
  \/ ClickWaitLocated \/ ClickWaitEnabled \/ ClickDispatch
  \/ DisplayedFind \/ DisplayedRead \/ DisappearFind \/ DisappearWait

SpecPage == PageInit /\ [][PageNext]_vars

(***************************************************************************)
(* Claims about the BasePage primitives.  call.seen and call.seenUp are    *)
(* the page and the session as they were when the call ended.              *)
(***************************************************************************)
\* C5: clickElement dispatches the click only after an element matching the
\* locator was located and was observed enabled; when a wait reaches its
\* timeout the call fails with an error and no click is dispatched.
C5_ClickOnlyWhenReady ==
  call.op = "clickElement" =>
    /\ call.clicked => call.locatedSeen /\ call.enabledSeen /\ call.element # 0
    /\ call.step = "click" => call.locatedSeen /\ call.enabledSeen
    /\ call.outcome = "returned" => call.clicked
    /\ call.outcome = "threw" => ~call.clicked /\ call.error.type # "none"
    /\ call.error.type = "TimeoutError" => call.outcome = "threw" /\ ~call.clicked

\* a click went out, after both waits were satisfied
C5_Witness ==
  /\ call.op = "clickElement"
  /\ call.outcome = "returned"
  /\ call.clicked
  /\ call.enabledSeen

\* C6: findElement returns an element matching the locator or fails with an
\* error whose message contains the label; it never returns without an
\* element and never lets the driver's own error through.
C6_FindElementWrapsErrors ==
  call.op = "findElement" /\ call.outcome # "running" =>
    /\ call.outcome \in {"returned", "threw"}
    /\ call.outcome = "returned" =>
         call.value # 0 /\ call.seenUp /\ Attached(call.value, call.seen)
    /\ call.outcome = "threw" =>
         /\ call.error.type = "Error"
         /\ Contains(call.error.message, call.elementName)

\* the lookup failed on a page without the element, under a caller's label
C6_Witness ==
  /\ call.op = "findElement"
  /\ call.outcome = "threw"
  /\ call.elementName = "login button"
  /\ ~call.seen.present
  /\ call.seenUp

\* C7: isElementDisplayed never throws; it returns true exactly when the
\* matching element exists and is displayed, and false when it is absent, not
\* displayed, or a driver call fails.
C7_IsElementDisplayedNeverThrows ==
  call.op = "isElementDisplayed" /\ call.outcome # "running" =>
    /\ call.outcome = "returned"
    /\ call.value \in BOOLEAN
    /\ call.value =
         (/\ call.seenUp
          /\ call.seen.present
          /\ call.seen.displayed
          /\ call.found
          /\ Attached(call.element, call.seen))

\* the element was found, then isDisplayed() failed: the probe says false
C7_Witness ==
  /\ call.op = "isElementDisplayed"
  /\ call.outcome = "returned"
  /\ call.found
  /\ ~Attached(call.element, call.seen)
  /\ call.value = FALSE

\* C8: waitForElementToDisappear returns normally only when the element is
\* absent or has become stale: a no-op when it was absent, and never a normal
\* return while the element it found is still attached to the page.
C8_DisappearOnlyWhenGone ==
  call.op = "waitForElementToDisappear" /\ call.outcome = "returned"
    /\ call.seenUp =>
      ~call.found \/ ~Attached(call.element, call.seen)

(***************************************************************************)
(* The application under test, as the login tests describe it.             *)
(***************************************************************************)
\* config.testUsers: every account uses the same password
StandardUser == "standard_user"
LockedUser == "locked_out_user"
TestUsers == {StandardUser, LockedUser, "problem_user", "performance_glitch_user"}
TestPassword == "secret_sauce"

\* user names and passwords the tests type
Usernames == TestUsers \cup {"invalid_user", ""}
Passwords == {TestPassword, "wrong_password", ""}

RequiredUsernameText == "Epic sadface: Username is required"
RequiredPasswordText == "Epic sadface: Password is required"
NoMatchText ==
  "Epic sadface: Username and password do not match any user in this service"
LockedOutText == "Epic sadface: Sorry, this user has been locked out."

\* An input's content is the sequence of texts typed since it was cleared.
Clear(field) == <<>>
SendKeys(field, text) == IF text = "" THEN field ELSE Append(field, text)

\* the content of an input as one string; the tests never type twice
FieldText(field) ==
  IF field = <<>> THEN "" ELSE IF Len(field) = 1 THEN field[1] ELSE "<several>"

\* what the application does when the login button is clicked
SauceDemoLogin(uf, pf) ==
  IF FieldText(uf) = ""
    THEN [screen |-> "login", banner |-> RequiredUsernameText]
  ELSE IF FieldText(pf) = ""
    THEN [screen |-> "login", banner |-> RequiredPasswordText]
  ELSE IF FieldText(uf) \in TestUsers /\ FieldText(pf) = TestPassword
    THEN IF FieldText(uf) = LockedUser
           THEN [screen |-> "login", banner |-> LockedOutText]
           ELSE [screen |-> "inventory", banner |-> "none"]
  ELSE [screen |-> "login", banner |-> NoMatchText]

\* the address the browser shows, in parts
Url(scr) ==
  CASE scr = "login" -> <<"https://www.", "saucedemo.com", "/">>
    [] scr = "inventory" -> <<"https://www.", "saucedemo.com", "/inventory.html">>
    [] OTHER -> <<"about:blank">>

\* what each LoginPage locator matches on a screen
LoginDom(locator, scr, banner) ==
  LET shown ==
        CASE locator = "errorMessage" -> scr = "login" /\ banner # "none"
          [] OTHER -> scr = "login"
  IN [present |-> shown, enabled |-> shown, displayed |-> shown, gen |-> 1]

(***************************************************************************)
(* BasePage primitives composed, on a page that holds still during a call. *)
(***************************************************************************)
\* isElementDisplayed: its value
isElementDisplayedValue(dm, up) ==
  LET f == isElementDisplayedFind(dm, up) IN
  IF f.done THEN f.value ELSE isElementDisplayedRead(f.el, dm, up).value

\* typeText that asks the driver for the element itself
typeText_DirectLookup(field, dm, up, text, fieldName) ==
  LET e == DriverFindElement(dm, up) IN
  IF e.threw
    THEN [outcome |-> "threw", error |-> e.error, field |-> field]
    ELSE [outcome |-> "returned", error |-> NoError,
          field |-> SendKeys(Clear(field), text)]

\* typeText: resolve, clear, sendKeys.  A result is [outcome, error, field].
typeText(field, dm, up, text, fieldName) ==
  LET e == findElement(dm, up, fieldName) IN
  IF e.outcome = "threw"
    THEN [outcome |-> "threw", error |-> e.error, field |-> field]
    ELSE [outcome |-> "returned", error |-> NoError,
          field |-> SendKeys(Clear(field), text)]

\* getElementText: resolve, getText.  A result is [outcome, error, value].
getElementText(dm, up, text, elementName) ==
  LET e == findElement(dm, up, elementName) IN
  IF e.outcome = "threw"
    THEN [outcome |-> "threw", error |-> e.error, value |-> JsNull]
    ELSE [outcome |-> "returned", error |-> NoError, value |-> JsStr(text)]

\* clickElement that resolves its element through findElement, without a
\* wait of its own
clickElementOnStablePage_ViaFindElement(dm, up, elementName) ==
  LET e == findElement(dm, up, elementName) IN
  IF e.outcome = "threw"
    THEN [outcome |-> "threw", error |-> e.error, clicked |-> FALSE]
  ELSE IF ~dm.enabled
    THEN [outcome |-> "threw", clicked |-> FALSE,
          error |-> [type |-> "TimeoutError",
                     message |-> <<elementName, " not clickable within ", timeout, "ms">>]]
  ELSE [outcome |-> "returned", error |-> NoError, clicked |-> TRUE]

\* clickElement when nothing changes while it waits: a wait whose condition
\* does not hold runs into its deadline.  A result is [outcome, error, clicked].
clickElementOnStablePage(dm, up, elementName) ==
  LET r == DriverFindElement(dm, up)
      located == WaitPoll(r.threw /\ r.error.type # "NoSuchElementError",
                          ~r.threw, MaxPolls, MaxPolls)
      enabled == WaitPoll(FALSE, dm.enabled, MaxPolls, MaxPolls) IN
  IF located = "error"
    THEN [outcome |-> "threw", error |-> r.error, clicked |-> FALSE]
  ELSE IF located # "satisfied"
    THEN [outcome |-> "threw", clicked |-> FALSE,
          error |-> [type |-> "TimeoutError",
                     message |-> <<elementName, " not found within ", timeout, "ms">>]]
  ELSE IF enabled # "satisfied"
    THEN [outcome |-> "threw", clicked |-> FALSE,
          error |-> [type |-> "TimeoutError",
                     message |-> <<elementName, " not clickable within ", timeout, "ms">>]]
  ELSE [outcome |-> "returned", error |-> NoError, clicked |-> TRUE]

(***************************************************************************)
(* LoginPage                                                               *)
(***************************************************************************)
\* login(username, password): enterUsername, enterPassword, clickLoginButton.
\* A result is [outcome, error, usernameField, passwordField, clicked].
login(username, password, uf, pf, scr, banner, up) ==
  LET u == typeText(uf, LoginDom("usernameField", scr, banner), up, username,
                    "username field") IN
  IF u.outcome = "threw"
    THEN [outcome |-> "threw", error |-> u.error, usernameField |-> uf,
          passwordField |-> pf, clicked |-> FALSE]
  ELSE
  LET w == typeText(pf, LoginDom("passwordField", scr, banner), up, password,
                    "password field") IN
  IF w.outcome = "threw"
    THEN [outcome |-> "threw", error |-> w.error, usernameField |-> u.field,
          passwordField |-> pf, clicked |-> FALSE]
  ELSE
  LET c == clickElementOnStablePage(LoginDom("loginButton", scr, banner), up,
                                    "login button") IN
  [outcome |-> c.outcome, error |-> c.error, usernameField |-> u.field,
   passwordField |-> w.field, clicked |-> c.clicked]

\* getErrorMessage that reads the banner without probing for it first
getErrorMessage_NoProbe(scr, banner, up, upAfter) ==
  LET t == getElementText(LoginDom("errorMessage", scr, banner), up /\ upAfter,
                          banner, "error message") IN
  [outcome |-> t.outcome, value |-> t.value, probe |-> TRUE, error |-> t.error]

\* getErrorMessage.  upAfter: the session survives the probe.
\* A result is [outcome, value, probe, error]; probe is isErrorDisplayed.
getErrorMessage(scr, banner, up, upAfter) ==
  LET isErrorDisplayed ==
        isElementDisplayedValue(LoginDom("errorMessage", scr, banner), up) IN
  IF ~isErrorDisplayed
    THEN [outcome |-> "returned", value |-> JsNull, probe |-> FALSE,
          error |-> NoError]
    ELSE LET t == getElementText(LoginDom("errorMessage", scr, banner),
                                 up /\ upAfter, banner, "error message") IN
         [outcome |-> t.outcome, value |-> t.value, probe |-> TRUE,
          error |-> t.error]

\* isOnLoginPage that goes by the address alone
isOnLoginPage_UrlOnly(scr, banner, up) ==
  IF ~up
    THEN [outcome |-> "threw", value |-> FALSE,
          error |-> [type |-> "WebDriverError", message |-> <<"session not reachable">>]]
    ELSE [outcome |-> "returned", error |-> NoError,
          value |-> Contains(Url(scr), "saucedemo.com")]

\* isOnLoginPage: the address names the site and the login button shows
isOnLoginPage(scr, banner, up) ==
  IF ~up
    THEN [outcome |-> "threw", value |-> FALSE,
          error |-> [type |-> "WebDriverError", message |-> <<"session not reachable">>]]
    ELSE [outcome |-> "returned", error |-> NoError,
          value |-> /\ Contains(Url(scr), "saucedemo.com")
                    /\ isElementDisplayedValue(
                         LoginDom("loginButton", scr, banner), up)]

LoginCallRecord(op, r, value, probe) ==
  [op |-> op, outcome |-> r.outcome, value |-> value, probe |-> probe,
   error |-> r.error.message]

LoginInit ==
  /\ LoginIdle
  /\ MgrIdle
  /\ TestIdle
  /\ StoreIdle
  /\ dom = EmptyDom
  /\ browserUp = TRUE
  /\ call = IdleCall

\* open(): navigate, then fail unless the login button shows
LoginOpen ==
  /\ \E loadOk \in BOOLEAN :
       LET scr == IF ~browserUp THEN screen ELSE IF loadOk THEN "login" ELSE "blank"
           ok == browserUp /\
                 isElementDisplayedValue(LoginDom("loginButton", scr, "none"),
                                         browserUp) IN
       /\ screen' = scr
       /\ IF browserUp
            THEN usernameField' = <<>> /\ passwordField' = <<>> /\ errorBanner' = "none"
            ELSE UNCHANGED <<usernameField, passwordField, errorBanner>>
       /\ loginCall' =
            [op |-> "open", outcome |-> IF ok THEN "returned" ELSE "threw",
             value |-> JsNull, probe |-> FALSE,
             error |-> IF ok THEN <<>> ELSE <<"Login page did not load correctly">>]
  /\ lastLogin' = NoLogin
  /\ UNCHANGED <<browserUp, notLogin>>

\* the application answers a click on the login button
AfterClick(r, uf, pf) ==
  IF r.clicked
    THEN LET a == SauceDemoLogin(uf, pf) IN
         /\ screen' = a.screen
         /\ errorBanner' = a.banner
         /\ IF a.screen = "login"
              THEN usernameField' = uf /\ passwordField' = pf
              ELSE usernameField' = <<>> /\ passwordField' = <<>>
    ELSE /\ usernameField' = uf
         /\ passwordField' = pf
         /\ UNCHANGED <<screen, errorBanner>>

LoginLogin ==
  /\ \E username \in Usernames, password \in Passwords :
       LET r == login(username, password, usernameField, passwordField, screen,
                      errorBanner, browserUp) IN
       /\ AfterClick(r, r.usernameField, r.passwordField)
       /\ loginCall' = LoginCallRecord("login", r, JsNull, FALSE)
       /\ lastLogin' = [username |-> username, password |-> password,
                        outcome |-> r.outcome]
  /\ UNCHANGED <<browserUp, notLogin>>

\* clickLoginButton() on its own: the fields are submitted as they stand
LoginClickLoginButton ==
  /\ LET r == clickElementOnStablePage(
                LoginDom("loginButton", screen, errorBanner), browserUp,
                "login button") IN
     /\ AfterClick(r, usernameField, passwordField)
     /\ loginCall' = LoginCallRecord("clickLoginButton", r, JsNull, FALSE)
     /\ lastLogin' = [username |-> FieldText(usernameField),
                      password |-> FieldText(passwordField),
                      outcome |-> r.outcome]
  /\ UNCHANGED <<browserUp, notLogin>>

LoginGetErrorMessage ==
  /\ \E upAfter \in BOOLEAN :
       LET r == getErrorMessage(screen, errorBanner, browserUp, upAfter) IN
       /\ loginCall' = LoginCallRecord("getErrorMessage", r, r.value, r.probe)
       /\ browserUp' = (browserUp /\ (r.probe => upAfter))
  /\ UNCHANGED <<screen, usernameField, passwordField, errorBanner, lastLogin,
                 notLogin>>

LoginIsOnLoginPage ==
  /\ LET r == isOnLoginPage(screen, errorBanner, browserUp) IN
     loginCall' = LoginCallRecord("isOnLoginPage", r, r.value, FALSE)
  /\ UNCHANGED <<screen, usernameField, passwordField, errorBanner, lastLogin,
                 browserUp, notLogin>>

\* ProductsPage.logout(): menu button, logout link; back to the login screen
LoginLogout ==
  /\ LET ok == browserUp /\ screen = "inventory" IN
     /\ screen' = IF ok THEN "login" ELSE screen
     /\ loginCall' =
          [op |-> "logout", outcome |-> IF ok THEN "returned" ELSE "threw",
           value |-> JsNull, probe |-> FALSE,
           error |-> IF ok THEN <<>>
                     ELSE <<"menu button", " not found within ", timeout, "ms">>]
     /\ lastLogin' = IF ok THEN NoLogin ELSE lastLogin
  /\ UNCHANGED <<usernameField, passwordField, errorBanner, browserUp, notLogin>>

\* the browser or its session dies between two LoginPage calls
LoginBrowserDies ==
  /\ browserUp
  /\ browserUp' = FALSE
  /\ UNCHANGED <<loginVars, notLogin>>

LoginNext ==
  \/ LoginOpen \/ LoginLogin \/ LoginClickLoginButton \/ LoginGetErrorMessage
  \/ LoginIsOnLoginPage \/ LoginLogout \/ LoginBrowserDies

SpecLogin == LoginInit /\ [][LoginNext]_vars

\* the error banner is on the screen
ErrorBannerDisplayed == screen = "login" /\ errorBanner # "none"

\* C9: getErrorMessage never throws on the no-banner branch: it returns null
\* when no error banner is displayed, and the banner's non-empty text when one
\* is displayed.
C9_GetErrorMessageSentinel ==
  loginCall.op = "getErrorMessage" =>
    /\ ~loginCall.probe =>
         loginCall.outcome = "returned" /\ loginCall.value = JsNull
    /\ ~ErrorBannerDisplayed =>
         loginCall.outcome = "returned" /\ loginCall.value = JsNull
    /\ ErrorBannerDisplayed /\ browserUp =>
         /\ loginCall.outcome = "returned"
         /\ loginCall.value = JsStr(errorBanner)
         /\ loginCall.value.s # ""

\* no banner on the login screen: the sentinel comes back
C9_Witness ==
  /\ loginCall.op = "getErrorMessage"
  /\ screen = "login"
  /\ errorBanner = "none"
  /\ browserUp
  /\ loginCall.outcome = "returned"
  /\ loginCall.value = JsNull

\* credentials the application turns down: an unknown user, a wrong or empty
\* password, an empty user name, the locked-out user
RejectedCredentials(username, password) ==
  \/ username = "" \/ password = ""
  \/ username \notin TestUsers
  \/ password # TestPassword
  \/ username = LockedUser

\* C10: after login with credentials the application rejects, getErrorMessage
\* returns a message and isOnLoginPage returns true; after login with the
\* valid standard credentials isOnLoginPage returns false and the location is
\* the product listing.
C10_LoginOutcomeObserved ==
  lastLogin.outcome = "returned" /\ browserUp =>
    /\ RejectedCredentials(lastLogin.username, lastLogin.password) =>
         /\ loginCall.op = "getErrorMessage" =>
              /\ loginCall.outcome = "returned"
              /\ loginCall.value # JsNull
              /\ loginCall.value.s # ""
         /\ loginCall.op = "isOnLoginPage" =>
              loginCall.outcome = "returned" /\ loginCall.value = TRUE
    /\ lastLogin.username = StandardUser /\ lastLogin.password = TestPassword =>
         /\ loginCall.op = "isOnLoginPage" =>
              loginCall.outcome = "returned" /\ loginCall.value = FALSE
         /\ Contains(Url(screen), "/inventory.html")
         /\ loginCall.op = "getErrorMessage" => loginCall.value = JsNull

\* logged in as the standard user, isOnLoginPage answered false
C10_Witness ==
  /\ lastLogin.outcome = "returned"
  /\ lastLogin.username = StandardUser
  /\ lastLogin.password = TestPassword
  /\ browserUp
  /\ loginCall.op = "isOnLoginPage"
  /\ loginCall.value = FALSE

(***************************************************************************)
(* Numbers and the texts the shop shows.  A text is a sequence of parts;   *)
(* an amount's characters are parts of their own, so that parsing reads    *)
(* them one by one.  A JavaScript number is held as an integer count of    *)
(* Scale-ths; the amounts here have at most four decimals, where doubles   *)
(* are exact to well under the tests' tolerance.                           *)
(***************************************************************************)
Scale == 10000
NaN == -1

Digits == <<"0", "1", "2", "3", "4", "5", "6", "7", "8", "9">>
IsDigit(c) == \E d \in 1..10 : Digits[d] = c
DigitValue(c) == (CHOOSE d \in 1..10 : Digits[d] = c) - 1

\* the run of digits of s from position i on: its value, its length and the
\* position after it
RECURSIVE ReadDigits(_, _, _, _)
ReadDigits(s, i, acc, n) ==
  IF i <= Len(s) /\ IsDigit(s[i])
    THEN ReadDigits(s, i + 1, acc * 10 + DigitValue(s[i]), n + 1)
    ELSE [value |-> acc, next |-> i, digits |-> n]

RECURSIVE Pow10(_)
Pow10(k) == IF k = 0 THEN 1 ELSE 10 * Pow10(k - 1)

\* parseFloat: the longest leading decimal number of the text, NaN if none
parseFloat(s) ==
  LET whole == ReadDigits(s, 1, 0, 0) IN
  IF whole.next <= Len(s) /\ s[whole.next] = "."
    THEN LET frac == ReadDigits(s, whole.next + 1, 0, 0) IN
         IF whole.digits = 0 /\ frac.digits = 0 THEN NaN
         ELSE whole.value * Scale +
              (IF frac.digits <= 4 THEN frac.value * Pow10(4 - frac.digits)
               ELSE frac.value \div Pow10(frac.digits - 4))
  ELSE IF whole.digits = 0 THEN NaN
  ELSE whole.value * Scale

\* parseInt: the leading run of digits, NaN if none; a plain integer
parseInt(s) ==
  LET whole == ReadDigits(s, 1, 0, 0) IN
  IF whole.digits = 0 THEN NaN ELSE whole.value

\* String.prototype.replace(part, ""): the first occurrence is removed
replace(s, part) ==
  IF \E i \in 1..Len(s) : s[i] = part
    THEN LET k == CHOOSE i \in 1..Len(s) :
                    s[i] = part /\ \A j \in 1..(i - 1) : s[j] # part IN
         SubSeq(s, 1, k - 1) \o SubSeq(s, k + 1, Len(s))
    ELSE s

\* text.match(/\$([\d.]+)/)[1]: the digits and dots after the first "$" that
\* has one behind it; <<>> stands for a failed match
MatchAmount(s) ==
  LET starts == {i \in 1..Len(s) :
                   /\ s[i] = "$"
                   /\ i < Len(s)
                   /\ IsDigit(s[i + 1]) \/ s[i + 1] = "."} IN
  IF starts = {} THEN <<>>
  ELSE LET k == CHOOSE i \in starts : \A j \in starts : i <= j
           last == CHOOSE e \in k + 1..Len(s) :
                     /\ \A j \in k + 1..e : IsDigit(s[j]) \/ s[j] = "."
                     /\ e = Len(s) \/ ~(IsDigit(s[e + 1]) \/ s[e + 1] = ".")
       IN SubSeq(s, k + 1, last)

\* a non-negative integer in decimal, one character a part
RECURSIVE DecimalText(_)
DecimalText(n) ==
  IF n < 10 THEN <<Digits[n + 1]>>
  ELSE Append(DecimalText(n \div 10), Digits[(n % 10) + 1])

\* an amount as the shop prints it: "$" and two decimals
AmountText(cents) ==
  <<"$">> \o DecimalText(cents \div 100) \o
  <<".", Digits[((cents % 100) \div 10) + 1], Digits[(cents % 10) + 1]>>

(***************************************************************************)
(* The shop, as the product and cart tests describe it.                    *)
(***************************************************************************)
\* the price of each product, in cents
PriceCents(name) ==
  CASE name = Backpack -> 2999
    [] name = BikeLight -> 999
    [] name = BoltTShirt -> 1599

\* the text of a card's or a cart row's price element
PriceText(name) == AmountText(PriceCents(name))

\* the id of the button a product's card shows: "Add to cart" until the
\* page shows the product in the cart, "Remove" from then on
ButtonId(name, rendered) ==
  IF \E i \in 1..Len(rendered) : rendered[i] = name
    THEN <<"remove-", name>>
    ELSE <<"add-to-cart-", name>>

\* what the cart badge locator matches: the badge shows while the page has
\* the cart non-empty
BadgeDom(rendered) ==
  LET shown == Len(rendered) > 0 IN
  [present |-> shown, enabled |-> shown, displayed |-> shown, gen |-> 1]

\* the badge's text
BadgeText(rendered) == DecimalText(Len(rendered))

\* a sequence without the first occurrence of x
Without(seq, x) == replace(seq, x)

\* the screens of the shop; the header with the cart link is on each
ShopScreens == {"inventory", "cart", "info", "review", "complete"}

(***************************************************************************)
(* ProductsPage: reading the cart counter and the product cards.           *)
(***************************************************************************)
\* getCartItemCount: the badge's number, 0 when no badge shows or anything
\* in the reading fails
getCartItemCount(rendered, up) ==
  LET badgeDisplayed == isElementDisplayedValue(BadgeDom(rendered), up) IN
  IF badgeDisplayed
    THEN LET badge == findElement(BadgeDom(rendered), up, "cart badge") IN
         IF badge.outcome = "threw" THEN 0
         ELSE parseInt(BadgeText(rendered))
    ELSE 0

\* the product record read from card i (the code counts cards from 0); the
\* description's text plays no part in any call and is left out
ProductRecord(order, rendered, i) ==
  [index |-> i - 1,
   name |-> order[i],
   price |-> parseFloat(replace(PriceText(order[i]), "$")),
   priceText |-> PriceText(order[i]),
   buttonId |-> ButtonId(order[i], rendered)]

\* the loop over the cards: a card whose reading throws is logged and left
\* out.  failing: the cards a sub-element of which cannot be read.
RECURSIVE ReadCards(_, _, _, _, _)
ReadCards(order, rendered, failing, i, products) ==
  IF i > Len(order) THEN products
  ELSE IF i \in failing
    THEN ReadCards(order, rendered, failing, i + 1, products)
    ELSE ReadCards(order, rendered, failing, i + 1,
                   Append(products, ProductRecord(order, rendered, i)))

\* getAllProducts whose loop has no try/catch: the first card that cannot
\* be read ends the enumeration
getAllProducts_AbortOnFailure(order, rendered, scr, up, failing) ==
  IF ~up
    THEN [outcome |-> "threw", value |-> <<>>,
          error |-> [type |-> "WebDriverError", message |-> <<"session not reachable">>]]
  ELSE IF scr # "inventory" \/ order = <<>>
    THEN [outcome |-> "threw", value |-> <<>>,
          error |-> [type |-> "TimeoutError",
                     message |-> <<"Products did not load within timeout">>]]
  ELSE IF failing \cap (1..Len(order)) # {}
    THEN [outcome |-> "threw", value |-> <<>>,
          error |-> [type |-> "NoSuchElementError",
                     message |-> <<"no such element: Unable to locate element">>]]
  ELSE [outcome |-> "returned", error |-> NoError,
        value |-> ReadCards(order, rendered, failing, 1, <<>>)]

\* getAllProducts on a page that holds still: wait for the cards, then read
\* each.  Only the inventory screen has cards; without them the wait runs
\* into its deadline.  A result is [outcome, value, error].
getAllProducts(order, rendered, scr, up, failing) ==
  IF ~up
    THEN [outcome |-> "threw", value |-> <<>>,
          error |-> [type |-> "WebDriverError", message |-> <<"session not reachable">>]]
  ELSE IF scr # "inventory" \/ order = <<>>
    THEN [outcome |-> "threw", value |-> <<>>,
          error |-> [type |-> "TimeoutError",
                     message |-> <<"Products did not load within timeout">>]]
  ELSE [outcome |-> "returned", error |-> NoError,
        value |-> ReadCards(order, rendered, failing, 1, <<>>)]

\* the names of the records of a list, as a set
Names(list) == {list[i].name : i \in 1..Len(list)}

\* products.find that falls back on the first card
FindProduct_FirstCard(products, productName) ==
  IF \E i \in 1..Len(products) : products[i].name = productName
    THEN [found |-> TRUE,
          buttonId |-> products[CHOOSE i \in 1..Len(products) :
                          /\ products[i].name = productName
                          /\ \A j \in 1..(i - 1) : products[j].name # productName
                       ].buttonId]
  ELSE IF products # <<>>
    THEN [found |-> TRUE, buttonId |-> products[1].buttonId]
  ELSE [found |-> FALSE, buttonId |-> <<>>]

\* products.find((p) => p.name === productName): the first record of that
\* exact name, if any
FindProduct(products, productName) ==
  IF \E i \in 1..Len(products) : products[i].name = productName
    THEN [found |-> TRUE,
          buttonId |-> products[CHOOSE i \in 1..Len(products) :
                          /\ products[i].name = productName
                          /\ \A j \in 1..(i - 1) : products[j].name # productName
                       ].buttonId]
    ELSE [found |-> FALSE, buttonId |-> <<>>]

\* addProductToCartByName that returns once it has clicked
addProductToCartByNameSteps_NoWait == <<"readCount", "enumerate", "click">>

\* the awaited steps of addProductToCartByName, in order
addProductToCartByNameSteps == <<"readCount", "enumerate", "click", "wait">>

\* what the shop does when a card's or a row's button is clicked
SauceDemoButton(buttonId, cart) ==
  IF buttonId[1] = "add-to-cart-" THEN Append(cart, buttonId[2])
  ELSE Without(cart, buttonId[2])

\* driver.findElement(By.id(buttonId)) on the rendered page, then click()
ClickButton(buttonId, shownIds, up) ==
  IF ~up
    THEN [threw |-> TRUE,
          error |-> [type |-> "WebDriverError", message |-> <<"session not reachable">>]]
  ELSE IF buttonId \notin shownIds
    THEN [threw |-> TRUE,
          error |-> [type |-> "NoSuchElementError",
                     message |-> <<"no such element: Unable to locate element">>]]
  ELSE [threw |-> FALSE, error |-> NoError]

\* the button ids on a screen
ShownButtonIds(scr, order, rendered) ==
  IF scr = "inventory"
    THEN {ButtonId(order[i], rendered) : i \in 1..Len(order)}
  ELSE IF scr = "cart"
    THEN {<<"remove-", rendered[i]>> : i \in 1..Len(rendered)}
  ELSE {}

(***************************************************************************)
(* CartPage: reading and removing the cart's rows.                         *)
(***************************************************************************)
\* the row record read from row i of the cart; the shop sells one of each
CartItemRecord(rendered, i) ==
  LET price == parseFloat(replace(PriceText(rendered[i]), "$"))
      quantity == parseInt(<<"1">>) IN
  [index |-> i - 1,
   name |-> rendered[i],
   price |-> price,
   priceText |-> PriceText(rendered[i]),
   quantity |-> quantity,
   removeButtonId |-> <<"remove-", rendered[i]>>,
   totalPrice |-> price * quantity]

\* getCartItems: every row's name, price, quantity and remove button, or []
\* when there is no row or anything in the reading fails.  The rows with
\* their remove buttons are the cart screen's.  failing: the rows a
\* sub-element of which cannot be read.
getCartItems(rendered, scr, up, failing) ==
  IF ~up THEN <<>>
  ELSE LET itemElements == IF scr = "cart" THEN rendered ELSE <<>> IN
       IF Len(itemElements) = 0 THEN <<>>
       ELSE IF failing \cap (1..Len(itemElements)) # {} THEN <<>>
       ELSE [i \in 1..Len(itemElements) |-> CartItemRecord(itemElements, i)]

\* cartItems.find((item) => item.name === itemName)
FindItem(cartItems, itemName) ==
  IF \E i \in 1..Len(cartItems) : cartItems[i].name = itemName
    THEN [found |-> TRUE,
          buttonId |-> cartItems[CHOOSE i \in 1..Len(cartItems) :
                          /\ cartItems[i].name = itemName
                          /\ \A j \in 1..(i - 1) : cartItems[j].name # itemName
                       ].removeButtonId]
    ELSE [found |-> FALSE, buttonId |-> <<>>]

\* the awaited steps of removeItemFromCart, in order; the last is
\* driver.sleep(1000)
removeItemFromCartSteps == <<"enumerate", "click", "sleep">>

(***************************************************************************)
(* The shop's sorting.                                                     *)
(***************************************************************************)
\* sortMap of sortProducts: the label of each option, "undefined" otherwise
sortMap(sortOption) ==
  CASE sortOption = "az" -> "Name (A to Z)"
    [] sortOption = "za" -> "Name (Z to A)"
    [] sortOption = "lohi" -> "Price (low to high)"
    [] sortOption = "hilo" -> "Price (high to low)"
    [] OTHER -> "undefined"

\* the options callers pass to sortProducts; the last is not one of the page's
SortOptions == {"az", "za", "lohi", "hilo", "newest"}

\* a name's place in alphabetical order; Catalog lists the names A to Z
NameRank(name) == CHOOSE i \in 1..Len(Catalog) : Catalog[i] = name

\* whether a goes before b under a sort option
Before(sortOption, a, b) ==
  CASE sortOption = "az" -> NameRank(a) < NameRank(b)
    [] sortOption = "za" -> NameRank(a) > NameRank(b)
    [] sortOption = "lohi" -> PriceCents(a) < PriceCents(b)
    [] sortOption = "hilo" -> PriceCents(a) > PriceCents(b)

\* the cards in the order the shop shows them under a sort option
SauceDemoSort(sortOption) ==
  CHOOSE order \in [1..Len(Catalog) -> Names([i \in 1..Len(Catalog) |-> [name |-> Catalog[i]]])] :
    /\ \A i, j \in 1..Len(Catalog) : i # j => order[i] # order[j]
    /\ \A i, j \in 1..Len(Catalog) : i < j => Before(sortOption, order[i], order[j])

(***************************************************************************)
(* ProductsPage and CartPage calls on the cart, step by step, against a    *)
(* shop that re-renders its page some time after a click.                  *)
(***************************************************************************)
\* a product name no card carries
UnknownProduct == "Sauce Labs Jetpack"

ProductArgs == {Catalog[i] : i \in 1..Len(Catalog)} \cup {UnknownProduct}

\* the calls the cart tests make, each with the arguments it takes
ShopCalls ==
  {<<op, "">> : op \in {"getCartItemCount", "goToCart", "continueShopping",
                        "getCartItems"}}
  \cup {<<op, name>> : op \in {"addProductToCartByName", "removeItemFromCart"},
                       name \in ProductArgs}

\* the first step of each call
ShopFirstStep(op) ==
  CASE op = "addProductToCartByName" -> addProductToCartByNameSteps[1]
    [] op = "removeItemFromCart" -> removeItemFromCartSteps[1]
    [] op = "sortProducts" -> "select"
    [] OTHER -> "call"

\* a call starts; it remembers the call before it and the last product list
\* read
NewShopCall(op, arg) ==
  [IdleShopCall EXCEPT
     !.op = op, !.arg = arg, !.step = ShopFirstStep(op), !.stepNo = 1,
     !.outcome = "running",
     !.startCart = appCart,
     !.startBadge = getCartItemCount(pageCart, browserUp),
     !.prevOp = shopCall.op, !.prevArg = shopCall.arg,
     !.prevOutcome = shopCall.outcome,
     !.prevList = IF shopCall.op = "getAllProducts" /\ shopCall.outcome = "returned"
                    THEN shopCall.list ELSE shopCall.prevList]

\* a call ends; cartNow and renderedNow are the cart and the page's view of
\* it as the call leaves them
FinishShop(c, outcome, error, cartNow, renderedNow) ==
  [c EXCEPT !.outcome = outcome, !.error = error, !.step = "done",
            !.endCart = cartNow,
            !.endBadge = getCartItemCount(renderedNow, browserUp)]

\* the call moves to its next awaited step, or returns after its last
Advance(c, steps, cartNow, renderedNow) ==
  LET n == StepAfter(steps, c.stepNo) IN
  IF n = 0 THEN FinishShop(c, "returned", NoError, cartNow, renderedNow)
  ELSE [c EXCEPT !.stepNo = n, !.step = steps[n], !.polls = 0]

\* the test's expectation after a call: a call that throws fails the test
ExpectAfter(c) ==
  IF c.outcome = "running" THEN expectedCart
  ELSE IF c.outcome = "threw" THEN [expectedCart EXCEPT !.valid = FALSE]
  ELSE IF c.op = "addProductToCartByName"
    THEN [expectedCart EXCEPT !.names = @ \cup {c.arg}]
  ELSE IF c.op = "removeItemFromCart"
    THEN [expectedCart EXCEPT !.names = @ \ {c.arg}]
  ELSE expectedCart

ShopRunning(op, step) ==
  /\ shopCall.op = op
  /\ shopCall.outcome = "running"
  /\ shopCall.step = step

\* what no call on the cart touches
shopRest == <<notStore, listVars, checkoutVars>>

ShopInit ==
  /\ StoreIdle
  /\ MgrIdle
  /\ TestIdle
  /\ LoginIdle
  /\ PageIdle

\* the test makes its next call; a call that threw has ended the test
ShopStart ==
  /\ shopCall.outcome \in {"idle", "returned"}
  /\ \E c \in ShopCalls : shopCall' = NewShopCall(c[1], c[2])
  /\ UNCHANGED <<cartVars, expectedCart, browserUp, shopRest>>

\* the page catches up with the application: badge, rows, buttons, order
AppRender ==
  /\ pageCart # appCart \/ pageOrder # SauceDemoSort(appSort)
  /\ pageCart' = appCart
  /\ pageOrder' = SauceDemoSort(appSort)
  /\ UNCHANGED <<shopScreen, appCart, appSort, shopVars, browserUp, notStore,
                 checkoutVars>>

\* the browser or its session dies
ShopBrowserDies ==
  /\ browserUp
  /\ browserUp' = FALSE
  /\ UNCHANGED <<storeVars, mgrVars, testVars, dom, call, loginVars, utilVars>>

\* getCartItemCount()
CountCall ==
  /\ ShopRunning("getCartItemCount", "call")
  /\ LET c == FinishShop([shopCall EXCEPT
                            !.count = getCartItemCount(pageCart, browserUp)],
                         "returned", NoError, appCart, pageCart) IN
     /\ shopCall' = c
     /\ expectedCart' = ExpectAfter(c)
  /\ UNCHANGED <<cartVars, browserUp, shopRest>>

\* part_000 line 150: const currentCartCount = await this.getCartItemCount()
AddReadCount ==
  /\ ShopRunning("addProductToCartByName", "readCount")
  /\ LET c == Advance([shopCall EXCEPT
                         !.currentCartCount = getCartItemCount(pageCart, browserUp)],
                      addProductToCartByNameSteps, appCart, pageCart) IN
     /\ shopCall' = c
     /\ expectedCart' = ExpectAfter(c)
  /\ UNCHANGED <<cartVars, browserUp, shopRest>>

\* lines 153-158: getAllProducts, find, and the error when nothing is found
AddEnumerate ==
  /\ ShopRunning("addProductToCartByName", "enumerate")
  /\ \E failing \in SUBSET (1..Len(pageOrder)) :
       LET r == getAllProducts(pageOrder, pageCart, shopScreen, browserUp, failing)
           targetProduct == FindProduct(r.value, shopCall.arg)
           c == IF r.outcome = "threw"
                  THEN FinishShop(shopCall, "threw", r.error, appCart, pageCart)
                ELSE IF ~targetProduct.found
                  THEN FinishShop([shopCall EXCEPT !.list = r.value,
                                                   !.enumerated = TRUE,
                                                   !.skipped = failing],
                                  "threw",
                                  [type |-> "Error",
                                   message |-> <<"Product \"", shopCall.arg,
                                                 "\" not found on page">>],
                                  appCart, pageCart)
                ELSE Advance([shopCall EXCEPT !.list = r.value,
                                              !.enumerated = TRUE,
                                              !.skipped = failing,
                                              !.buttonId = targetProduct.buttonId],
                             addProductToCartByNameSteps, appCart, pageCart) IN
       /\ shopCall' = c
       /\ expectedCart' = ExpectAfter(c)
  /\ UNCHANGED <<cartVars, browserUp, shopRest>>

\* lines 161-164: driver.findElement(By.id(buttonId)), click(); the shop
\* takes the click at once and re-renders later
AddClick ==
  /\ ShopRunning("addProductToCartByName", "click")
  /\ LET r == ClickButton(shopCall.buttonId,
                          ShownButtonIds(shopScreen, pageOrder, pageCart),
                          browserUp)
         cartNow == IF r.threw THEN appCart
                    ELSE SauceDemoButton(shopCall.buttonId, appCart)
         c == IF r.threw
                THEN FinishShop(shopCall, "threw", r.error, appCart, pageCart)
                ELSE Advance([shopCall EXCEPT !.clicked = TRUE],
                             addProductToCartByNameSteps, cartNow, pageCart) IN
     /\ appCart' = cartNow
     /\ shopCall' = c
     /\ expectedCart' = ExpectAfter(c)
  /\ UNCHANGED <<shopScreen, pageCart, browserUp, shopRest>>

\* line 169 and lines 224-237: one poll of waitForCartCountChange
AddWait ==
  /\ ShopRunning("addProductToCartByName", "wait")
  /\ LET expectedCount == shopCall.currentCartCount + 1
         currentCount == getCartItemCount(pageCart, browserUp)
         w == WaitPoll(FALSE, currentCount = expectedCount, shopCall.polls, MaxPolls)
         c == CASE w = "satisfied" ->
                     Advance(shopCall, addProductToCartByNameSteps, appCart, pageCart)
                [] w = "pending" -> [shopCall EXCEPT !.polls = @ + 1]
                [] OTHER ->
                     FinishShop(shopCall, "threw",
                                [type |-> "TimeoutError",
                                 message |-> <<"Cart count did not reach ">> \o
                                             DecimalText(expectedCount) \o
                                             <<" within ">> \o
                                             DecimalText(timeout) \o <<"ms">>],
                                appCart, pageCart) IN
     /\ shopCall' = c
     /\ expectedCart' = ExpectAfter(c)
  /\ UNCHANGED <<cartVars, browserUp, shopRest>>

\* what the cart link and the "continue shopping" button match on a screen
NavDom(locator, scr) ==
  LET shown == CASE locator = "shoppingCartLink" -> scr \in ShopScreens
                 [] locator = "continueShoppingBtn" -> scr = "cart"
                 [] OTHER -> FALSE
  IN [present |-> shown, enabled |-> shown, displayed |-> shown, gen |-> 1]

\* part_000 lines 280-284: goToCart() clicks the cart link; the cart screen
\* loads showing the cart as it is
GoToCartCall ==
  /\ ShopRunning("goToCart", "call")
  /\ LET r == clickElementOnStablePage(NavDom("shoppingCartLink", shopScreen),
                                       browserUp, "shopping cart")
         renderedNow == IF r.clicked THEN appCart ELSE pageCart
         c == FinishShop(shopCall, r.outcome, r.error, appCart, renderedNow) IN
     /\ shopScreen' = IF r.clicked THEN "cart" ELSE shopScreen
     /\ pageCart' = renderedNow
     /\ shopCall' = c
     /\ expectedCart' = ExpectAfter(c)
  /\ UNCHANGED <<appCart, browserUp, shopRest>>

\* LoginPage.js lines 855-862: continueShopping() goes back to the inventory
ContinueShoppingCall ==
  /\ ShopRunning("continueShopping", "call")
  /\ LET r == clickElementOnStablePage(NavDom("continueShoppingBtn", shopScreen),
                                       browserUp, "continue shopping button")
         renderedNow == IF r.clicked THEN appCart ELSE pageCart
         c == FinishShop(shopCall, r.outcome, r.error, appCart, renderedNow) IN
     /\ shopScreen' = IF r.clicked THEN "inventory" ELSE shopScreen
     /\ pageCart' = renderedNow
     /\ shopCall' = c
     /\ expectedCart' = ExpectAfter(c)
  /\ UNCHANGED <<appCart, browserUp, shopRest>>

\* getCartItems()
CartItemsCall ==
  /\ ShopRunning("getCartItems", "call")
  /\ \E failing \in SUBSET (1..Len(pageCart)) :
       LET c == FinishShop([shopCall EXCEPT
                              !.list = getCartItems(pageCart, shopScreen,
                                                    browserUp, failing),
                              !.enumerated = TRUE, !.skipped = failing,
                              !.seenOrder = IF shopScreen = "cart" /\ browserUp
                                              THEN pageCart ELSE <<>>],
                           "returned", NoError, appCart, pageCart) IN
       /\ shopCall' = c
       /\ expectedCart' = ExpectAfter(c)
  /\ UNCHANGED <<cartVars, browserUp, shopRest>>

\* LoginPage.js lines 640-645: getCartItems, find, and the error when the
\* item is not in the cart
RemoveEnumerate ==
  /\ ShopRunning("removeItemFromCart", "enumerate")
  /\ \E failing \in SUBSET (1..Len(pageCart)) :
       LET cartItems == getCartItems(pageCart, shopScreen, browserUp, failing)
           itemToRemove == FindItem(cartItems, shopCall.arg)
           c == IF ~itemToRemove.found
                  THEN FinishShop([shopCall EXCEPT !.list = cartItems,
                                                   !.enumerated = TRUE,
                                                   !.skipped = failing],
                                  "threw",
                                  [type |-> "Error",
                                   message |-> <<"Item \"", shopCall.arg,
                                                 "\" not found in cart">>],
                                  appCart, pageCart)
                  ELSE Advance([shopCall EXCEPT !.list = cartItems,
                                                !.enumerated = TRUE,
                                                !.skipped = failing,
                                                !.buttonId = itemToRemove.buttonId],
                               removeItemFromCartSteps, appCart, pageCart) IN
       /\ shopCall' = c
       /\ expectedCart' = ExpectAfter(c)
  /\ UNCHANGED <<cartVars, browserUp, shopRest>>

\* lines 648-651: driver.findElement(By.id(removeButtonId)), click()
RemoveClick ==
  /\ ShopRunning("removeItemFromCart", "click")
  /\ LET r == ClickButton(shopCall.buttonId,
                          ShownButtonIds(shopScreen, pageOrder, pageCart),
                          browserUp)
         cartNow == IF r.threw THEN appCart
                    ELSE SauceDemoButton(shopCall.buttonId, appCart)
         c == IF r.threw
                THEN FinishShop(shopCall, "threw", r.error, appCart, pageCart)
                ELSE Advance([shopCall EXCEPT !.clicked = TRUE],
                             removeItemFromCartSteps, cartNow, pageCart) IN
     /\ appCart' = cartNow
     /\ shopCall' = c
     /\ expectedCart' = ExpectAfter(c)
  /\ UNCHANGED <<shopScreen, pageCart, browserUp, shopRest>>

\* line 656: driver.sleep(1000); whether the page re-renders meanwhile is the
\* page's business (AppRender)
RemoveSleep ==
  /\ ShopRunning("removeItemFromCart", "sleep")
  /\ LET c == IF browserUp
                THEN Advance(shopCall, removeItemFromCartSteps, appCart, pageCart)
                ELSE FinishShop(shopCall, "threw",
                                [type |-> "WebDriverError",
                                 message |-> <<"session not reachable">>],
                                appCart, pageCart) IN
     /\ shopCall' = c
     /\ expectedCart' = ExpectAfter(c)
  /\ UNCHANGED <<cartVars, browserUp, shopRest>>

ShopNext ==
  \/ ShopStart \/ AppRender \/ ShopBrowserDies \/ CountCall
  \/ AddReadCount \/ AddEnumerate \/ AddClick \/ AddWait
  \/ GoToCartCall \/ ContinueShoppingCall \/ CartItemsCall
  \/ RemoveEnumerate \/ RemoveClick \/ RemoveSleep

SpecShop == ShopInit /\ [][ShopNext]_vars

(***************************************************************************)
(* Claims about the cart counter.  shopCall.startBadge and .endBadge are   *)
(* what getCartItemCount reads when the call starts and when it ends.      *)
(***************************************************************************)
\* C11: whenever addProductToCartByName returns normally, the cart counter
\* read by getCartItemCount is exactly one greater than it was when the call
\* started; when the counter does not reach that value within the timeout
\* the call fails with the wait's timeout error instead of returning.
C11_AddWaitsForCounter ==
  shopCall.op = "addProductToCartByName" =>
    /\ shopCall.outcome = "returned" =>
         /\ shopCall.clicked
         /\ shopCall.endBadge = shopCall.startBadge + 1
    /\ shopCall.clicked /\ shopCall.outcome # "running" /\
       shopCall.endBadge # shopCall.startBadge + 1 =>
         /\ shopCall.outcome = "threw"
         /\ shopCall.error.type = "TimeoutError"
         /\ shopCall.error.message[1] = "Cart count did not reach "

\* an add that returned after polling the counter more than once
C11_Witness ==
  /\ shopCall.op = "addProductToCartByName"
  /\ shopCall.outcome = "returned"
  /\ shopCall.polls > 0
  /\ shopCall.endBadge = 2
  /\ shopCall.startBadge = 1

\* C12: addProductToCartByName fails with a not-found error when no product
\* of the enumeration has exactly the name asked for; no click is dispatched
\* and the cart and its counter are as they were.
C12_AddUnknownProductFails ==
  /\ shopCall.op = "addProductToCartByName"
  /\ shopCall.enumerated
  /\ shopCall.arg \notin Names(shopCall.list)
  => /\ shopCall.outcome = "threw"
     /\ shopCall.error.type = "Error"
     /\ shopCall.error.message =
          <<"Product \"", shopCall.arg, "\" not found on page">>
     /\ ~shopCall.clicked
     /\ shopCall.endCart = shopCall.startCart
     /\ appCart = shopCall.startCart
     /\ shopCall.endBadge = shopCall.startBadge

\* a name no card carries was asked for while the cart held a product
C12_Witness ==
  /\ shopCall.op = "addProductToCartByName"
  /\ shopCall.arg = UnknownProduct
  /\ shopCall.enumerated
  /\ Len(shopCall.list) = Len(Catalog)
  /\ shopCall.outcome = "threw"
  /\ shopCall.startBadge = 1

\* C13: starting from an empty cart, once the test has added N distinct
\* products getCartItemCount returns N and getCartItems returns those N
\* names; after removeItemFromCart(x) the next reading holds one item fewer
\* and not x, the others remaining.  expectedCart keeps the test's count.
C13_CartTracksAddsAndRemoves ==
  expectedCart.valid /\ browserUp /\ shopCall.outcome = "returned" =>
    /\ shopCall.op = "getCartItemCount" =>
         shopCall.count = Cardinality(expectedCart.names)
    /\ shopCall.op = "getCartItems" /\ shopScreen = "cart" /\ shopCall.skipped = {} =>
         /\ Names(shopCall.list) = expectedCart.names
         /\ Len(shopCall.list) = Cardinality(expectedCart.names)

(***************************************************************************)
(* ProductsPage calls on the product list: reading the cards and sorting.  *)
(***************************************************************************)
\* sortProducts up to its clicks: the option is looked up in sortMap, the
\* dropdown is resolved and clicked, the option is found in it and clicked.
\* A result is [outcome, error, selected].
sortProducts(sortOption, up) ==
  IF sortMap(sortOption) = "undefined"
    THEN [outcome |-> "threw", selected |-> FALSE,
          error |-> [type |-> "Error",
                     message |-> <<"Invalid sort option: ", sortOption>>]]
  ELSE LET dropdown ==
             findElement([present |-> TRUE, enabled |-> TRUE, displayed |-> TRUE,
                          gen |-> 1], up, "sort dropdown") IN
       IF dropdown.outcome = "threw"
         THEN [outcome |-> "threw", selected |-> FALSE, error |-> dropdown.error]
         ELSE [outcome |-> "returned", selected |-> TRUE, error |-> NoError]

\* the calls the product tests make on the list
CatalogCalls ==
  {<<"getAllProducts", "">>} \cup {<<"sortProducts", o>> : o \in SortOptions}

\* what no call on the list touches
catalogRest == <<notStore, cartVars, expectedCart, checkoutVars>>

CatalogInit ==
  /\ StoreIdle
  /\ MgrIdle
  /\ TestIdle
  /\ LoginIdle
  /\ PageIdle

\* the test makes its next call; a call that threw has ended the test
CatalogStart ==
  /\ shopCall.outcome \in {"idle", "returned"}
  /\ \E c \in CatalogCalls : shopCall' = NewShopCall(c[1], c[2])
  /\ UNCHANGED <<listVars, browserUp, catalogRest>>

\* getAllProducts(); shopCall.seenOrder is the page as the call read it
AllProductsCall ==
  /\ ShopRunning("getAllProducts", "call")
  /\ \E failing \in SUBSET (1..Len(pageOrder)) :
       LET r == getAllProducts(pageOrder, pageCart, shopScreen, browserUp, failing) IN
       shopCall' = FinishShop([shopCall EXCEPT !.list = r.value,
                                               !.enumerated = TRUE,
                                               !.skipped = failing,
                                               !.seenOrder = pageOrder],
                              r.outcome, r.error, appCart, pageCart)
  /\ UNCHANGED <<listVars, browserUp, catalogRest>>

\* part_000 lines 244-269: the shop takes the option at once and re-renders
\* the cards later
SortSelect ==
  /\ ShopRunning("sortProducts", "select")
  /\ LET r == sortProducts(shopCall.arg, browserUp) IN
     /\ appSort' = IF r.selected THEN shopCall.arg ELSE appSort
     /\ shopCall' =
          IF r.outcome = "threw"
            THEN FinishShop(shopCall, "threw", r.error, appCart, pageCart)
            ELSE [shopCall EXCEPT !.clicked = TRUE, !.step = "sleep", !.stepNo = 2]
  /\ UNCHANGED <<pageOrder, browserUp, catalogRest>>

\* line 272: driver.sleep(1000), then the call returns
SortSleep ==
  /\ ShopRunning("sortProducts", "sleep")
  /\ shopCall' =
       IF browserUp
         THEN FinishShop(shopCall, "returned", NoError, appCart, pageCart)
         ELSE FinishShop(shopCall, "threw",
                         [type |-> "WebDriverError",
                          message |-> <<"session not reachable">>],
                         appCart, pageCart)
  /\ UNCHANGED <<listVars, browserUp, catalogRest>>

CatalogNext ==
  \/ CatalogStart \/ AppRender \/ ShopBrowserDies \/ AllProductsCall
  \/ SortSelect \/ SortSleep

SpecCatalog == CatalogInit /\ [][CatalogNext]_vars

\* whether a product list is in the order a sort option asks for
OrderedBy(sortOption, list) ==
  \A i, j \in 1..Len(list) :
    i < j =>
      CASE sortOption = "az" -> NameRank(list[i].name) <= NameRank(list[j].name)
        [] sortOption = "za" -> NameRank(list[i].name) >= NameRank(list[j].name)
        [] sortOption = "lohi" -> list[i].price <= list[j].price
        [] sortOption = "hilo" -> list[i].price >= list[j].price

\* whether two product lists hold the same products, each once
IsPermutation(a, b) ==
  /\ Len(a) = Len(b)
  /\ Names(a) = Names(b)
  /\ Cardinality(Names(a)) = Len(a)

\* C14: for every supported sort mode, the list getAllProducts reads right
\* after sortProducts(mode) returned is a permutation of the list read before
\* and is in the mode's order; it is never the pre-sort order.  Stated for
\* reads that skipped no card.
C14_ReadAfterSortIsSorted ==
  /\ shopCall.op = "getAllProducts"
  /\ shopCall.outcome = "returned"
  /\ shopCall.skipped = {}
  /\ shopCall.prevOp = "sortProducts"
  /\ shopCall.prevOutcome = "returned"
  => /\ OrderedBy(shopCall.prevArg, shopCall.list)
     /\ Len(shopCall.prevList) = Len(Catalog) =>
          IsPermutation(shopCall.list, shopCall.prevList)

\* the cards a reading could read, by their place on the page
ReadableCards(c) == {k \in 1..Len(c.seenOrder) : k \notin c.skipped}

\* C20: getAllProducts skips a card whose name, price, description or button
\* cannot be read and still returns every other card, in page order, each
\* with a numeric price; an unreadable card never makes the call throw.
C20_MalformedCardSkipped ==
  shopCall.op = "getAllProducts" /\ shopCall.outcome # "running" =>
    /\ shopCall.outcome = "threw" =>
         shopCall.error.type \in {"WebDriverError", "TimeoutError"}
    /\ shopCall.outcome = "returned" =>
         /\ Len(shopCall.list) = Cardinality(ReadableCards(shopCall))
         /\ \A k \in ReadableCards(shopCall) :
              \E i \in 1..Len(shopCall.list) :
                /\ shopCall.list[i].index = k - 1
                /\ shopCall.list[i].name = shopCall.seenOrder[k]
         /\ \A i, j \in 1..Len(shopCall.list) :
              i < j => shopCall.list[i].index < shopCall.list[j].index
         /\ \A i \in 1..Len(shopCall.list) :
              /\ shopCall.list[i].price # NaN
              /\ shopCall.list[i].price * 100 =
                   PriceCents(shopCall.list[i].name) * Scale

\* the middle card could not be read; the two around it came back
C20_Witness ==
  /\ shopCall.op = "getAllProducts"
  /\ shopCall.outcome = "returned"
  /\ shopCall.skipped = {2}
  /\ Len(shopCall.list) = 2
  /\ shopCall.list[2].index = 2

(***************************************************************************)
(* The checkout, as the cart tests and CartPage's locators describe it.    *)
(***************************************************************************)
\* what each CartPage locator matches on a screen
CheckoutDom(locator, scr) ==
  LET shown ==
        CASE locator \in {"checkoutBtn", "continueShoppingBtn"} -> scr = "cart"
          [] locator \in {"checkoutContainer", "firstNameField", "lastNameField",
                          "postalCodeField", "continueBtn"} -> scr = "info"
          [] locator = "cancelBtn" -> scr \in {"info", "review"}
          [] locator \in {"summaryContainer", "subtotalLabel", "taxLabel",
                          "totalLabel", "finishBtn"} -> scr = "review"
          [] locator \in {"completeHeader", "completeText",
                          "backToProductsBtn"} -> scr = "complete"
          [] OTHER -> FALSE
  IN [present |-> shown, enabled |-> shown, displayed |-> shown, gen |-> 1]

\* the checkout information as texts
FormTexts(frm) ==
  [firstName |-> FieldText(frm.firstName), lastName |-> FieldText(frm.lastName),
   postalCode |-> FieldText(frm.postalCode)]

\* the banner the information form shows for the first required field left
\* empty, "none" when all three are filled
SauceDemoRequiredField(frm) ==
  IF FormTexts(frm).firstName = "" THEN "Error: First Name is required"
  ELSE IF FormTexts(frm).lastName = "" THEN "Error: Last Name is required"
  ELSE IF FormTexts(frm).postalCode = "" THEN "Error: Postal Code is required"
  ELSE "none"

\* what the shop does when a checkout button is clicked: the screen it goes
\* to, or the banner it shows
SauceDemoCheckout(locator, scr, frm) ==
  CASE locator = "checkoutBtn" /\ scr = "cart" ->
         [nav |-> "info", banner |-> "none"]
    [] locator = "continueBtn" /\ scr = "info" ->
         IF SauceDemoRequiredField(frm) = "none"
           THEN [nav |-> "review", banner |-> "none"]
           ELSE [nav |-> "none", banner |-> SauceDemoRequiredField(frm)]
    [] locator = "finishBtn" /\ scr = "review" ->
         [nav |-> "complete", banner |-> "none"]
    [] locator = "cancelBtn" /\ scr = "info" ->
         [nav |-> "cart", banner |-> "none"]
    [] locator = "cancelBtn" /\ scr = "review" ->
         [nav |-> "inventory", banner |-> "none"]
    [] locator = "backToProductsBtn" /\ scr = "complete" ->
         [nav |-> "inventory", banner |-> "none"]
    [] OTHER -> [nav |-> "none", banner |-> "none"]

\* the sum of the cart's prices, in cents
RECURSIVE CartCents(_)
CartCents(cart) ==
  IF cart = <<>> THEN 0 ELSE PriceCents(Head(cart)) + CartCents(Tail(cart))

\* the tax the shop charges: 8% of the item total, rounded to the cent
TaxCents(cents) == (cents * 8 + 50) \div 100

\* the text of each label of the order summary
SummaryText(locator, cart) ==
  CASE locator = "subtotalLabel" ->
         <<"Item total: ">> \o AmountText(CartCents(cart))
    [] locator = "taxLabel" ->
         <<"Tax: ">> \o AmountText(TaxCents(CartCents(cart)))
    [] locator = "totalLabel" ->
         <<"Total: ">> \o AmountText(CartCents(cart) + TaxCents(CartCents(cart)))

ThankYouText == "Thank you for your order!"

(***************************************************************************)
(* CartPage: the checkout stages.                                          *)
(***************************************************************************)
\* the three stages that move to the next screen
Transitions == {"proceedToCheckout", "continueToReview", "finishOrder"}

\* continueToReview clicking the form's other button
StageButton_CancelForContinue(stage) ==
  CASE stage = "proceedToCheckout" -> "checkoutBtn"
    [] stage = "continueToReview" -> "cancelBtn"
    [] stage = "finishOrder" -> "finishBtn"

\* the button each transition clicks
StageButton(stage) ==
  CASE stage = "proceedToCheckout" -> "checkoutBtn"
    [] stage = "continueToReview" -> "continueBtn"
    [] stage = "finishOrder" -> "finishBtn"

\* the name each transition gives its button
StageButtonName(stage) ==
  CASE stage = "proceedToCheckout" -> "checkout button"
    [] stage = "continueToReview" -> "continue button"
    [] stage = "finishOrder" -> "finish button"

\* the element each transition waits for
StageSignature(stage) ==
  CASE stage = "proceedToCheckout" -> "checkoutContainer"
    [] stage = "continueToReview" -> "summaryContainer"
    [] stage = "finishOrder" -> "completeHeader"

\* every transition's wait carrying the first one's message
StageMessage_SameForAll(stage) == "Checkout form did not appear"

\* the message of each transition's wait
StageMessage(stage) ==
  CASE stage = "proceedToCheckout" -> "Checkout form did not appear"
    [] stage = "continueToReview" -> "Order summary did not load"
    [] stage = "finishOrder" -> "Order completion page did not load"

\* a transition that returns once it has clicked
TransitionSteps_NoWait == <<"click">>

\* the awaited steps of a transition, in order
TransitionSteps == <<"click", "wait">>

\* fillCheckoutInformation: three typeText calls.
\* A result is [outcome, error, form].
fillCheckoutInformation(frm, checkoutInfo, scr, up) ==
  LET f == typeText(frm.firstName, CheckoutDom("firstNameField", scr), up,
                    checkoutInfo.firstName, "first name field") IN
  IF f.outcome = "threw"
    THEN [outcome |-> "threw", error |-> f.error, form |-> frm]
  ELSE
  LET l == typeText(frm.lastName, CheckoutDom("lastNameField", scr), up,
                    checkoutInfo.lastName, "last name field") IN
  IF l.outcome = "threw"
    THEN [outcome |-> "threw", error |-> l.error,
          form |-> [frm EXCEPT !.firstName = f.field]]
  ELSE
  LET z == typeText(frm.postalCode, CheckoutDom("postalCodeField", scr), up,
                    checkoutInfo.postalCode, "postal code field") IN
  IF z.outcome = "threw"
    THEN [outcome |-> "threw", error |-> z.error,
          form |-> [frm EXCEPT !.firstName = f.field, !.lastName = l.field]]
    ELSE [outcome |-> "returned", error |-> NoError,
          form |-> [firstName |-> f.field, lastName |-> l.field,
                    postalCode |-> z.field]]

\* getOrderSummary that reads the tax label for the subtotal
getOrderSummary_TaxForSubtotal(scr, cart, up) ==
  LET subtotalElement == findElement(CheckoutDom("subtotalLabel", scr), up, "subtotal") IN
  IF subtotalElement.outcome = "threw"
    THEN [outcome |-> "threw", error |-> subtotalElement.error, summary |-> NoSummary]
    ELSE [outcome |-> "returned", error |-> NoError,
          summary |->
            [subtotal |-> parseFloat(MatchAmount(SummaryText("taxLabel", cart))),
             tax |-> parseFloat(MatchAmount(SummaryText("taxLabel", cart))),
             total |-> parseFloat(MatchAmount(SummaryText("totalLabel", cart)))]]

\* getOrderSummary: the three labels are resolved, read and parsed.
\* A result is [outcome, error, summary].
getOrderSummary(scr, cart, up) ==
  LET subtotalElement == findElement(CheckoutDom("subtotalLabel", scr), up, "subtotal")
      taxElement == findElement(CheckoutDom("taxLabel", scr), up, "tax")
      totalElement == findElement(CheckoutDom("totalLabel", scr), up, "total") IN
  IF subtotalElement.outcome = "threw"
    THEN [outcome |-> "threw", error |-> subtotalElement.error, summary |-> NoSummary]
  ELSE IF taxElement.outcome = "threw"
    THEN [outcome |-> "threw", error |-> taxElement.error, summary |-> NoSummary]
  ELSE IF totalElement.outcome = "threw"
    THEN [outcome |-> "threw", error |-> totalElement.error, summary |-> NoSummary]
  ELSE [outcome |-> "returned", error |-> NoError,
        summary |->
          [subtotal |-> parseFloat(MatchAmount(SummaryText("subtotalLabel", cart))),
           tax |-> parseFloat(MatchAmount(SummaryText("taxLabel", cart))),
           total |-> parseFloat(MatchAmount(SummaryText("totalLabel", cart)))]]

\* getCompletionMessage: header and text are resolved and read.
\* A result is [outcome, error, header].
getCompletionMessage(scr, up) ==
  LET headerElement == findElement(CheckoutDom("completeHeader", scr), up,
                                   "completion header")
      textElement == findElement(CheckoutDom("completeText", scr), up,
                                 "completion text") IN
  IF headerElement.outcome = "threw"
    THEN [outcome |-> "threw", error |-> headerElement.error, header |-> ""]
  ELSE IF textElement.outcome = "threw"
    THEN [outcome |-> "threw", error |-> textElement.error, header |-> ""]
  ELSE [outcome |-> "returned", error |-> NoError, header |-> ThankYouText]

\* cartItems.reduce((total, item) => total + item.totalPrice, 0)
RECURSIVE SumTotalPrice(_, _)
SumTotalPrice(cartItems, total) ==
  IF cartItems = <<>> THEN total
  ELSE SumTotalPrice(Tail(cartItems), total + Head(cartItems).totalPrice)

\* calculateExpectedSubtotal on a page whose rows can all be read
calculateExpectedSubtotal(rendered, scr, up) ==
  SumTotalPrice(getCartItems(rendered, scr, up, {}), 0)

\* completeCheckout finishing the order before it reads the summary
completeCheckoutSteps_FinishFirst ==
  <<"proceedToCheckout", "fillCheckoutInformation", "continueToReview",
    "finishOrder", "getOrderSummary", "getCompletionMessage">>

\* the stages of completeCheckout, in order
completeCheckoutSteps ==
  <<"proceedToCheckout", "fillCheckoutInformation", "continueToReview",
    "getOrderSummary", "finishOrder", "getCompletionMessage">>

(***************************************************************************)
(* CartPage checkout calls, step by step, against a shop that shows the    *)
(* next screen some time after a click.                                    *)
(***************************************************************************)
\* checkout information the tests pass: complete, or with fields left empty
CheckoutInfos ==
  {[firstName |-> f, lastName |-> l, postalCode |-> z] :
     f \in {"John", ""}, l \in {"Doe", ""}, z \in {"12345", ""}}

NoInfo == [firstName |-> "", lastName |-> "", postalCode |-> ""]

\* the checkout calls a test makes, each with the argument it takes
CheckoutCalls ==
  {<<op, NoInfo>> : op \in Transitions \cup {"getOrderSummary", "getCompletionMessage",
                                             "calculateExpectedSubtotal"}}
  \cup {<<op, info>> : op \in {"fillCheckoutInformation", "completeCheckout"},
                       info \in CheckoutInfos}

\* the carts a test brings to the cart screen
Carts ==
  {<<>>, <<Backpack>>, <<Backpack, BikeLight>>, <<Backpack, BoltTShirt>>,
   <<Backpack, BikeLight, BoltTShirt>>}

\* the first step of a stage
StageFirstStep(stage) ==
  IF stage \in Transitions THEN TransitionSteps[1] ELSE "call"

\* a call starts; it keeps the subtotal the test computed earlier
NewCheckoutCall(op, info) ==
  LET stage == IF op = "completeCheckout" THEN completeCheckoutSteps[1] ELSE op IN
  [IdleCheckoutCall EXCEPT
     !.op = op, !.info = info, !.stage = stage, !.step = StageFirstStep(stage),
     !.stepNo = 1, !.stageNo = 1, !.outcome = "running", !.stageLog = <<stage>>,
     !.startScreen = shopScreen, !.endScreen = shopScreen,
     !.expectedSubtotal = checkoutCall.expectedSubtotal,
     !.subtotalScreen = checkoutCall.subtotalScreen]

\* a call ends on the screen the page shows
FinishCheckout(c, outcome, error) ==
  [c EXCEPT !.outcome = outcome, !.error = error, !.step = "done",
            !.endScreen = shopScreen]

\* a stage has returned: completeCheckout goes on to its next stage, a stage
\* called on its own returns
StageDone(c) ==
  IF c.op = "completeCheckout" /\ c.stageNo < Len(completeCheckoutSteps)
    THEN LET n == c.stageNo + 1
             stage == completeCheckoutSteps[n] IN
         [c EXCEPT !.stage = stage, !.stageNo = n, !.step = StageFirstStep(stage),
                   !.stepNo = 1, !.polls = 0, !.clicked = FALSE,
                   !.stageLog = Append(@, stage)]
    ELSE FinishCheckout(c, "returned", NoError)

\* a transition moves to its next awaited step, or is done after its last
TransitionAdvance(c) ==
  LET n == StepAfter(TransitionSteps, c.stepNo) IN
  IF n = 0 THEN StageDone(c)
  ELSE [c EXCEPT !.stepNo = n, !.step = TransitionSteps[n], !.polls = 0]

CheckoutRunning(stages, step) ==
  /\ checkoutCall.outcome = "running"
  /\ checkoutCall.stage \in stages
  /\ checkoutCall.step = step

\* what no checkout call touches
checkoutRest == <<notStore, appCart, pageCart, listVars, shopVars>>

CheckoutInit ==
  /\ shopScreen = "cart"
  /\ appCart \in Carts
  /\ pageCart = appCart
  /\ appSort = "az"
  /\ pageOrder = Catalog
  /\ expectedCart = NothingExpected
  /\ shopCall = IdleShopCall
  /\ navPending = "none"
  /\ form = EmptyForm
  /\ formError = "none"
  /\ checkoutCall = IdleCheckoutCall
  /\ UtilIdle
  /\ MgrIdle
  /\ TestIdle
  /\ LoginIdle
  /\ PageIdle

\* the test makes its next call; a call that threw has ended the test
CheckoutStart ==
  /\ checkoutCall.outcome \in {"idle", "returned"}
  /\ \E c \in CheckoutCalls : checkoutCall' = NewCheckoutCall(c[1], c[2])
  /\ UNCHANGED <<shopScreen, navPending, form, formError, browserUp, checkoutRest>>

\* the page shows the screen a click asked for; the information form comes
\* up empty
AppNavigate ==
  /\ navPending # "none"
  /\ shopScreen' = navPending
  /\ navPending' = "none"
  /\ form' = IF navPending = "info" THEN EmptyForm ELSE form
  /\ formError' = "none"
  /\ UNCHANGED <<checkoutCall, browserUp, checkoutRest>>

\* LoginPage.js lines 679, 726, 784: clickElement on the stage's button; the
\* shop takes the click at once and shows the next screen later
StageClick ==
  /\ CheckoutRunning(Transitions, "click")
  /\ LET stage == checkoutCall.stage
         r == clickElementOnStablePage(CheckoutDom(StageButton(stage), shopScreen),
                                       browserUp, StageButtonName(stage))
         a == SauceDemoCheckout(StageButton(stage), shopScreen, form) IN
     /\ navPending' = IF r.clicked THEN a.nav ELSE navPending
     /\ formError' = IF r.clicked THEN a.banner ELSE formError
     /\ checkoutCall' =
          IF r.outcome = "threw"
            THEN FinishCheckout(checkoutCall, "threw", r.error)
            ELSE TransitionAdvance([checkoutCall EXCEPT
                                      !.clicked = TRUE,
                                      !.submitted = FormTexts(form)])
  /\ UNCHANGED <<shopScreen, form, browserUp, checkoutRest>>

\* lines 682-686, 729-733, 787-791: one poll of
\* driver.wait(until.elementLocated(signature), timeout, message)
StageWait ==
  /\ CheckoutRunning(Transitions, "wait")
  /\ LET stage == checkoutCall.stage
         r == DriverFindElement(CheckoutDom(StageSignature(stage), shopScreen),
                                browserUp)
         w == WaitPoll(r.threw /\ r.error.type # "NoSuchElementError", ~r.threw,
                       checkoutCall.polls, MaxPolls) IN
     checkoutCall' =
       CASE w = "satisfied" -> StageDone(checkoutCall)
         [] w = "pending" -> [checkoutCall EXCEPT !.polls = @ + 1]
         [] w = "timeout" ->
              FinishCheckout([checkoutCall EXCEPT !.waitTimedOut = TRUE], "threw",
                             [type |-> "TimeoutError",
                              message |-> <<StageMessage(stage)>>])
         [] OTHER -> FinishCheckout(checkoutCall, "threw", r.error)
  /\ UNCHANGED <<shopScreen, navPending, form, formError, browserUp, checkoutRest>>

\* fillCheckoutInformation(checkoutInfo)
FillCall ==
  /\ CheckoutRunning({"fillCheckoutInformation"}, "call")
  /\ LET r == fillCheckoutInformation(form, checkoutCall.info, shopScreen, browserUp) IN
     /\ form' = r.form
     /\ checkoutCall' =
          IF r.outcome = "threw" THEN FinishCheckout(checkoutCall, "threw", r.error)
          ELSE StageDone(checkoutCall)
  /\ UNCHANGED <<shopScreen, navPending, formError, browserUp, checkoutRest>>

\* getOrderSummary(); summaryScreen is the screen it was read on
SummaryCall ==
  /\ CheckoutRunning({"getOrderSummary"}, "call")
  /\ LET r == getOrderSummary(shopScreen, pageCart, browserUp) IN
     checkoutCall' =
       IF r.outcome = "threw" THEN FinishCheckout(checkoutCall, "threw", r.error)
       ELSE StageDone([checkoutCall EXCEPT !.orderSummary = r.summary,
                                           !.summaryScreen = shopScreen])
  /\ UNCHANGED <<shopScreen, navPending, form, formError, browserUp, checkoutRest>>

\* getCompletionMessage()
CompletionCall ==
  /\ CheckoutRunning({"getCompletionMessage"}, "call")
  /\ LET r == getCompletionMessage(shopScreen, browserUp) IN
     checkoutCall' =
       IF r.outcome = "threw" THEN FinishCheckout(checkoutCall, "threw", r.error)
       ELSE StageDone([checkoutCall EXCEPT !.completion = r.header])
  /\ UNCHANGED <<shopScreen, navPending, form, formError, browserUp, checkoutRest>>

\* calculateExpectedSubtotal(); subtotalScreen is the screen it was read on
SubtotalCall ==
  /\ CheckoutRunning({"calculateExpectedSubtotal"}, "call")
  /\ checkoutCall' =
       FinishCheckout([checkoutCall EXCEPT
                         !.expectedSubtotal =
                            calculateExpectedSubtotal(pageCart, shopScreen, browserUp),
                         !.subtotalScreen = IF browserUp THEN shopScreen ELSE "none"],
                      "returned", NoError)
  /\ UNCHANGED <<shopScreen, navPending, form, formError, browserUp, checkoutRest>>

CheckoutNext ==
  \/ CheckoutStart \/ AppNavigate \/ ShopBrowserDies \/ StageClick \/ StageWait
  \/ FillCall \/ SummaryCall \/ CompletionCall \/ SubtotalCall

SpecCheckout == CheckoutInit /\ [][CheckoutNext]_vars

(***************************************************************************)
(* Claims about the checkout (SpecCheckout).                               *)
(***************************************************************************)
\* C15: over any sequence of CartPage stage calls the screen only moves
\* cart -> information form -> review -> complete, one step at a time,
\* never backward and never past a stage, and nothing leaves complete.
C15_CheckoutIsLinear ==
  [][shopScreen' # shopScreen =>
       <<shopScreen, shopScreen'>> \in
         {<<"cart", "info">>, <<"info", "review">>, <<"review", "complete">>}]_vars

\* C15: the flow walked to its end: finishOrder returned on the complete
\* screen
C15_Witness ==
  /\ checkoutCall.op = "finishOrder"
  /\ checkoutCall.outcome = "returned"
  /\ shopScreen = "complete"

\* C16: a checkout transition that returned has clicked and ended on the
\* next screen, where its signature element is present; one whose wait
\* timed out failed with a TimeoutError carrying its own stage's message
\* and ended on the screen it started on.
C16_TransitionWaitsForSignature ==
  checkoutCall.op \in {"proceedToCheckout", "continueToReview", "finishOrder"} =>
    /\ checkoutCall.outcome = "returned" =>
         /\ checkoutCall.clicked
         /\ <<checkoutCall.op, checkoutCall.startScreen, checkoutCall.endScreen>> \in
              {<<"proceedToCheckout", "cart", "info">>,
               <<"continueToReview", "info", "review">>,
               <<"finishOrder", "review", "complete">>}
         /\ CheckoutDom(StageSignature(checkoutCall.op), checkoutCall.endScreen).present
    /\ checkoutCall.waitTimedOut =>
         /\ checkoutCall.outcome = "threw"
         /\ checkoutCall.error.type = "TimeoutError"
         /\ <<checkoutCall.op, checkoutCall.error.message[1]>> \in
              {<<"proceedToCheckout", "Checkout form did not appear">>,
               <<"continueToReview", "Order summary did not load">>,
               <<"finishOrder", "Order completion page did not load">>}
         /\ checkoutCall.endScreen = checkoutCall.startScreen

\* C16: continueToReview returned with the review screen shown
C16_Witness ==
  /\ checkoutCall.op = "continueToReview"
  /\ checkoutCall.outcome = "returned"
  /\ checkoutCall.endScreen = "review"

\* C16: finishOrder's wait ran out while the page still showed the review
C16_TimedOut ==
  /\ checkoutCall.op = "finishOrder"
  /\ checkoutCall.waitTimedOut
  /\ checkoutCall.endScreen = "review"

\* C17: completeCheckout runs its stages in the fixed order
\* proceedToCheckout, fillCheckoutInformation, continueToReview,
\* getOrderSummary, finishOrder, getCompletionMessage; the summary is read
\* on the review screen; a call that returned ran all six, holds the
\* summary and the completion text and ended on the complete screen; a call
\* that failed ran no stage after the failing one.
C17_CompleteCheckoutOrder ==
  LET order == <<"proceedToCheckout", "fillCheckoutInformation", "continueToReview",
                 "getOrderSummary", "finishOrder", "getCompletionMessage">>
      c == checkoutCall IN
  c.op = "completeCheckout" =>
    /\ Len(c.stageLog) \in 1..6
    /\ c.stageLog = SubSeq(order, 1, Len(c.stageLog))
    /\ c.stage = c.stageLog[Len(c.stageLog)]
    /\ Len(c.stageLog) >= 5 => c.summaryScreen = "review"
    /\ c.outcome = "returned" =>
         /\ c.stageLog = order
         /\ c.summaryScreen = "review"
         /\ c.orderSummary.subtotal = CartCents(pageCart) * (Scale \div 100)
         /\ c.completion = "Thank you for your order!"
         /\ c.endScreen = "complete"
         /\ shopScreen = "complete"

\* C17: completeCheckout returned for a cart of two products
C17_Witness ==
  /\ checkoutCall.op = "completeCheckout"
  /\ checkoutCall.outcome = "returned"
  /\ Len(pageCart) = 2

\* C17: completeCheckout failed in continueToReview and ran nothing after it
C17_Failed ==
  /\ checkoutCall.op = "completeCheckout"
  /\ checkoutCall.outcome = "threw"
  /\ checkoutCall.stageLog =
       <<"proceedToCheckout", "fillCheckoutInformation", "continueToReview">>

\* the banners of the information form
RequiredFieldBanners ==
  {"Error: First Name is required", "Error: Last Name is required",
   "Error: Postal Code is required"}

\* continueToReview has ended after submitting the form with an empty
\* required field, in a browser that is still up
SubmittedEmptyField ==
  /\ checkoutCall.stage = "continueToReview"
  /\ checkoutCall.clicked
  /\ checkoutCall.outcome \in {"returned", "threw"}
  /\ browserUp
  /\ \/ checkoutCall.submitted.firstName = ""
     \/ checkoutCall.submitted.lastName = ""
     \/ checkoutCall.submitted.postalCode = ""

\* C18 as stated: submitting the information form with an empty required
\* field leaves the flow on the form and the call fails with a
\* required-field error.
C18_RequiredFieldErrorSurfaced ==
  SubmittedEmptyField =>
    /\ checkoutCall.endScreen = "info"
    /\ checkoutCall.outcome = "threw"
    /\ checkoutCall.error.message[1] \in RequiredFieldBanners

\* C18, amended: submitting the information form with an empty required
\* field leaves the flow on the form, and the call fails with the
\* TimeoutError of continueToReview, "Order summary did not load".
C18_EmptyFieldTimesOut ==
  SubmittedEmptyField =>
    /\ checkoutCall.endScreen = "info"
    /\ shopScreen = "info"
    /\ checkoutCall.waitTimedOut
    /\ checkoutCall.outcome = "threw"
    /\ checkoutCall.error.type = "TimeoutError"
    /\ checkoutCall.error.message[1] = "Order summary did not load"

\* C18: the form was submitted without a postal code and the call failed
C18_Witness ==
  /\ SubmittedEmptyField
  /\ checkoutCall.submitted.firstName = "John"
  /\ checkoutCall.submitted.lastName = "Doe"
  /\ checkoutCall.outcome = "threw"

Distance(a, b) == IF a >= b THEN a - b ELSE b - a

\* 0.01, in the unit numbers are held in
Tolerance == Scale \div 100

C21_FailedRowSkipped ==
  shopCall.op = "getCartItems" /\ shopCall.outcome = "returned" =>
    /\ Len(shopCall.list) = Cardinality(ReadableCards(shopCall))
    /\ \A k \in ReadableCards(shopCall) :
         \E i \in 1..Len(shopCall.list) : shopCall.list[i].name = shopCall.seenOrder[k]

(***************************************************************************)
(* ScreenshotUtils, call by call and await by await.                       *)
(***************************************************************************)
\* files the capture directory may hold before the run stops making calls
MaxFiles == 3

CaptureOps == {"takeScreenshot", "captureStep", "captureSuccess",
               "captureFailureEvidence"}

\* the awaited steps of each call, in order; captureStep and captureSuccess
\* are takeScreenshot with other labels; captureFailureEvidence starts with
\* a takeScreenshot of its own and ends with the log line that takes
\* path.basename(screenshotPath)
CaptureSteps(op) ==
  IF op = "captureFailureEvidence"
    THEN <<"driver.takeScreenshot", "writeScreenshot", "getCurrentUrl", "getTitle",
           "getPageSource", "writeEvidence", "path.basename">>
    ELSE <<"driver.takeScreenshot", "writeScreenshot">>

\* the steps that belong to takeScreenshot's own try block
InTakeScreenshot(step) == step \in {"driver.takeScreenshot", "writeScreenshot"}

\* catch blocks that let the failure through
Caught_Rethrow(op, step) == "throw"

\* what the catch block around a failing step does: takeScreenshot's catch
\* returns null, which inside captureFailureEvidence is only the value of
\* screenshotPath; captureFailureEvidence's own catch returns null
Caught(op, step) ==
  IF InTakeScreenshot(step)
    THEN IF op = "captureFailureEvidence" THEN "nullPath" ELSE "returnNull"
    ELSE "returnNull"

NewCaptureCall(op) ==
  [IdleCaptureCall EXCEPT
     !.op = op, !.step = CaptureSteps(op)[1], !.stepNo = 1, !.outcome = "running",
     !.deadAtStart = ~browserUp]

\* the call's position after step number n has resolved with record c
CaptureAfter(c, n) ==
  IF n < Len(CaptureSteps(c.op))
    THEN [c EXCEPT !.stepNo = n + 1, !.step = CaptureSteps(c.op)[n + 1]]
    ELSE [c EXCEPT !.step = "done", !.outcome = "returned",
                   !.value = IF c.op = "captureFailureEvidence"
                               THEN "evidence" ELSE c.screenshotPath]

\* the current step has failed: the catch block around it decides
CaptureFailed(c) ==
  LET how == Caught(c.op, c.step)
      f == [c EXCEPT !.failedAt = IF @ = "none" THEN c.step ELSE @] IN
  CASE how = "nullPath" ->
         \* takeScreenshot returned null; captureFailureEvidence goes on
         CaptureAfter([f EXCEPT !.screenshotPath = "null"], 2)
    [] how = "returnNull" ->
         [f EXCEPT !.step = "done", !.outcome = "returned", !.value = "null"]
    [] OTHER ->
         [f EXCEPT !.step = "done", !.outcome = "threw"]

CaptureRunning(steps) ==
  /\ captureCall.outcome = "running"
  /\ captureCall.step \in steps

CaptureInit ==
  /\ MgrIdle
  /\ TestIdle
  /\ PageIdle
  /\ LoginIdle
  /\ StoreIdle

\* a test makes its next ScreenshotUtils call; a call that threw has ended it
CaptureStart ==
  /\ captureCall.outcome \in {"idle", "returned"}
  /\ screenshots + evidenceDocs < MaxFiles
  /\ \E op \in CaptureOps : captureCall' = NewCaptureCall(op)
  /\ UNCHANGED <<screenshots, evidenceDocs, browserUp, notCapture>>

\* the session dies: every later driver command is rejected
CaptureBrowserDies ==
  /\ browserUp
  /\ browserUp' = FALSE
  /\ UNCHANGED <<captureVars, notCapture>>

\* driver.takeScreenshot(), getCurrentUrl(), getTitle(), getPageSource():
\* rejected on a dead session, and possibly on a live one
CaptureDriverStep ==
  /\ CaptureRunning({"driver.takeScreenshot", "getCurrentUrl", "getTitle",
                     "getPageSource"})
  /\ \E ok \in {b \in BOOLEAN : b => browserUp} :
       captureCall' = IF ok THEN CaptureAfter(captureCall, captureCall.stepNo)
                      ELSE CaptureFailed(captureCall)
  /\ UNCHANGED <<screenshots, evidenceDocs, browserUp, notCapture>>

\* fs.writeFile(screenshotPath, screenshot, "base64")
CaptureWriteScreenshot ==
  /\ CaptureRunning({"writeScreenshot"})
  /\ \E ok \in BOOLEAN :
       IF ok
         THEN /\ captureCall' = CaptureAfter([captureCall EXCEPT
                                                !.screenshotPath = "path"],
                                             captureCall.stepNo)
              /\ screenshots' = screenshots + 1
         ELSE /\ captureCall' = CaptureFailed(captureCall)
              /\ screenshots' = screenshots
  /\ UNCHANGED <<evidenceDocs, browserUp, notCapture>>

\* fs.writeFile(evidencePath, JSON.stringify(evidence, null, 2))
CaptureWriteEvidence ==
  /\ CaptureRunning({"writeEvidence"})
  /\ \E ok \in BOOLEAN :
       IF ok
         THEN /\ captureCall' = CaptureAfter([captureCall EXCEPT !.written = TRUE],
                                             captureCall.stepNo)
              /\ evidenceDocs' = evidenceDocs + 1
         ELSE /\ captureCall' = CaptureFailed(captureCall)
              /\ evidenceDocs' = evidenceDocs
  /\ UNCHANGED <<screenshots, browserUp, notCapture>>

\* console.log(`Screenshot: ${path.basename(screenshotPath)}`): path.basename
\* throws a TypeError for a path that is not a string
CaptureLogBasename ==
  /\ CaptureRunning({"path.basename"})
  /\ captureCall' = IF captureCall.screenshotPath = "path"
                      THEN CaptureAfter(captureCall, captureCall.stepNo)
                      ELSE CaptureFailed(captureCall)
  /\ UNCHANGED <<screenshots, evidenceDocs, browserUp, notCapture>>

CaptureNext ==
  \/ CaptureStart \/ CaptureBrowserDies \/ CaptureDriverStep
  \/ CaptureWriteScreenshot \/ CaptureWriteEvidence \/ CaptureLogBasename

SpecCapture == CaptureInit /\ [][CaptureNext]_vars

\* C22: diagnostic capture never throws: takeScreenshot, captureStep,
\* captureSuccess and captureFailureEvidence end by returning, with null
\* after a failure they do not survive, whichever of the screenshot, the
\* URL, title and page-source reads or the file writes failed, on a live or
\* a dead session.
C22_CaptureNeverThrows ==
  /\ captureCall.outcome # "threw"
  /\ captureCall.outcome = "returned" =>
       /\ captureCall.value \in {"null", "path", "evidence"}
       /\ captureCall.failedAt \notin {"none", "driver.takeScreenshot", "writeScreenshot"}
            => captureCall.value = "null"
       /\ captureCall.op # "captureFailureEvidence" /\ captureCall.failedAt # "none"
            => captureCall.value = "null"

\* C22: captureFailureEvidence on a session that was already dead returned
\* null
C22_Witness ==
  /\ captureCall.op = "captureFailureEvidence"
  /\ captureCall.deadAtStart
  /\ captureCall.outcome = "returned"
  /\ captureCall.value = "null"
  /\ captureCall.failedAt = "driver.takeScreenshot"

\* C28: captureFailureEvidence returns null exactly when it wrote no
\* failure-evidence document; a failed screenshot alone does not make it
\* return null.
C28_EvidenceReturnedWhenWritten ==
  captureCall.op = "captureFailureEvidence" /\ captureCall.outcome = "returned" =>
    (captureCall.value = "null" <=> ~captureCall.written)

(***************************************************************************)
(* TestDataReader.  A line of a CSV file is a sequence of parts, the comma *)
(* and the double quote being parts of their own.                          *)
(***************************************************************************)
\* data rows a users.csv may hold, and entries a JSON list may hold
MaxRows == 2
MaxItems == 2

\* line.split(","): the parts between commas
RECURSIVE Split(_, _, _, _)
Split(line, i, currentValue, values) ==
  IF i > Len(line) THEN Append(values, currentValue)
  ELSE IF line[i] = ","
    THEN Split(line, i + 1, <<>>, Append(values, currentValue))
    ELSE Split(line, i + 1, Append(currentValue, line[i]), values)

\* parseCsvLine: the loop over the characters; a quote toggles
\* insideQuotes, a comma outside quotes ends the value
RECURSIVE parseCsvLineFrom(_, _, _, _, _)
parseCsvLineFrom(line, i, currentValue, insideQuotes, values) ==
  IF i > Len(line) THEN Append(values, currentValue)
  ELSE IF line[i] = "\""
    THEN parseCsvLineFrom(line, i + 1, currentValue, ~insideQuotes, values)
  ELSE IF line[i] = "," /\ ~insideQuotes
    THEN parseCsvLineFrom(line, i + 1, <<>>, insideQuotes, Append(values, currentValue))
  ELSE parseCsvLineFrom(line, i + 1, Append(currentValue, line[i]), insideQuotes, values)

parseCsvLine(line) == parseCsvLineFrom(line, 1, <<>>, FALSE, <<>>)

\* the object of a data row: headers as keys; a later header of the same
\* name wins
RowObject(headers, values) ==
  [h \in {headers[k] : k \in 1..Len(headers)} |->
     values[CHOOSE k \in 1..Len(headers) :
              /\ headers[k] = h
              /\ \A m \in (k + 1)..Len(headers) : headers[m] # h]]

\* the loop of parseCsv over the data rows: a row with another number of
\* values than the header is warned about and left out
RECURSIVE ParseRows(_, _, _, _)
ParseRows(lines, headers, i, data) ==
  IF i > Len(lines) THEN data
  ELSE LET values == parseCsvLine(lines[i]) IN
       IF Len(values) # Len(headers)
         THEN ParseRows(lines, headers, i + 1, data)
         ELSE ParseRows(lines, headers, i + 1, Append(data, RowObject(headers, values)))

\* the data lines parseCsv leaves out, by their place in the file
SkippedRows(lines) ==
  {i \in 2..Len(lines) : Len(parseCsvLine(lines[i])) # Len(Split(lines[1], 1, <<>>, <<>>))}

ReaderOk(rows, items) ==
  [outcome |-> "returned", error |-> [type |-> "none", message |-> <<>>],
   rows |-> rows, items |-> items]

ReaderThrew(type, message) ==
  [outcome |-> "threw", error |-> [type |-> type, message |-> message],
   rows |-> <<>>, items |-> <<>>]

\* parseCsv(csvContent)
parseCsv(lines) ==
  IF Len(lines) < 2
    THEN ReaderThrew("Error",
                     <<"CSV file must have at least a header row and one data row">>)
    ELSE ReaderOk(ParseRows(lines, Split(lines[1], 1, <<>>, <<>>), 2, <<>>), <<>>)

\* readCsvFile: whatever fails in reading or parsing is replaced by the
\* reader's own error
readCsvFile(file, filename) ==
  IF file.state = "missing" \/ parseCsv(file.lines).outcome = "threw"
    THEN ReaderThrew("Error", <<"Failed to read CSV file: ", filename>>)
    ELSE parseCsv(file.lines)

\* readJsonFile: a failing read or JSON.parse is replaced by the reader's
\* own error
readJsonFile(file, filename) ==
  IF file.state \in {"missing", "unparsable"}
    THEN ReaderThrew("Error", <<"Failed to read JSON file: ", filename>>)
    ELSE ReaderOk(<<>>, <<>>)

\* user.expectedResult of a row object: undefined without that column
ExpectedResult(user) ==
  IF <<"expectedResult">> \in DOMAIN user
    THEN user[<<"expectedResult">>] ELSE <<"undefined">>

\* allUsers.filter((user) => user.expectedResult === result)
RECURSIVE FilterUsers(_, _, _, _)
FilterUsers(allUsers, result, i, kept) ==
  IF i > Len(allUsers) THEN kept
  ELSE FilterUsers(allUsers, result, i + 1,
                   IF ExpectedResult(allUsers[i]) = <<result>>
                     THEN Append(kept, allUsers[i]) ELSE kept)

\* getValidUsers ("success") and getInvalidUsers ("error")
getUsersByResult(file, result) ==
  LET allUsers == readCsvFile(file, "users.csv") IN
  IF allUsers.outcome = "threw" THEN allUsers
  ELSE ReaderOk(FilterUsers(allUsers.rows, result, 1, <<>>), <<>>)

\* getShoppingScenarios: checkoutData.shoppingScenarios.length is read for
\* the log line
getShoppingScenarios(file) ==
  LET checkoutData == readJsonFile(file, "checkout-data.json") IN
  IF checkoutData.outcome = "threw" THEN checkoutData
  ELSE IF ~file.shoppingScenarios.present
    THEN ReaderThrew("TypeError",
                     <<"Cannot read properties of undefined (reading 'length')">>)
    ELSE ReaderOk(<<>>, file.shoppingScenarios.items)

\* getRandomCheckoutInfo; randomIndex is Math.floor(Math.random() * length)
getRandomCheckoutInfo(file, randomIndex) ==
  LET checkoutData == readJsonFile(file, "checkout-data.json")
      validData == file.validCheckoutData IN
  IF checkoutData.outcome = "threw" THEN checkoutData
  ELSE IF ~validData.present
    THEN ReaderThrew("TypeError",
                     <<"Cannot read properties of undefined (reading 'length')">>)
  ELSE IF randomIndex + 1 > Len(validData.items)
    THEN ReaderThrew("TypeError",
                     <<"Cannot read properties of undefined (reading 'testCase')">>)
    ELSE ReaderOk(<<>>, <<validData.items[randomIndex + 1]>>)

\* the values Math.floor(Math.random() * n) can take
RandomIndexes(n) == IF n = 0 THEN {0} ELSE 0..(n - 1)

(***************************************************************************)
(* The reader against fixture files in every condition.                    *)
(***************************************************************************)
\* data lines: well-formed, one value short, and with a quoted comma
CsvRows ==
  {<<"standard_user", ",", "secret_sauce", ",", "success">>,
   <<"locked_out_user", ",", "secret_sauce", ",", "error">>,
   <<"problem_user", ",", "secret_sauce">>,
   <<"\"", "visual", ",", "user", "\"", ",", "secret_sauce", ",", "success">>}

RECURSIVE SeqsUpTo(_, _)
SeqsUpTo(S, n) ==
  IF n = 0 THEN {<<>>}
  ELSE SeqsUpTo(S, n - 1) \cup
       {Append(q, x) : q \in {p \in SeqsUpTo(S, n - 1) : Len(p) = n - 1}, x \in S}

CsvFiles ==
  {[state |-> "missing", lines |-> <<>>], [state |-> "ok", lines |-> << <<>> >>]}
  \cup {[state |-> "ok",
         lines |-> << <<"username", ",", "password", ",", "expectedResult">> >> \o rows] :
          rows \in SeqsUpTo(CsvRows, MaxRows)}

JsonLists ==
  {Undefined} \cup {JsList(items) : items \in SeqsUpTo({"entry"}, MaxItems)}

JsonFiles ==
  {[state |-> st, shoppingScenarios |-> Undefined, validCheckoutData |-> Undefined] :
     st \in {"missing", "unparsable"}}
  \cup {[state |-> "ok", shoppingScenarios |-> a, validCheckoutData |-> b] :
          a \in JsonLists, b \in JsonLists}

ReaderInit ==
  /\ csvFile \in CsvFiles
  /\ jsonFile \in JsonFiles
  /\ readerCall = IdleReaderCall
  /\ CaptureIdle
  /\ ReportIdle
  /\ MgrIdle
  /\ TestIdle
  /\ PageIdle
  /\ LoginIdle
  /\ shopScreen = "inventory"
  /\ appCart = <<>>
  /\ pageCart = <<>>
  /\ appSort = "az"
  /\ pageOrder = Catalog
  /\ expectedCart = NothingExpected
  /\ shopCall = IdleShopCall
  /\ navPending = "none"
  /\ form = EmptyForm
  /\ formError = "none"
  /\ checkoutCall = IdleCheckoutCall

\* a finished call, as the reader variable keeps it
Called(op, r, skipped) ==
  [op |-> op, outcome |-> r.outcome, error |-> r.error, rows |-> r.rows,
   items |-> r.items, skippedRows |-> skipped]

\* readCsvFile("users.csv") or getUserTestData()
ReadCsvCall ==
  /\ \E op \in {"readCsvFile", "getUserTestData"} :
       readerCall' = Called(op, readCsvFile(csvFile, "users.csv"),
                            SkippedRows(csvFile.lines))
  /\ UNCHANGED <<csvFile, jsonFile, notReader>>

\* readJsonFile("checkout-data.json") or getCheckoutTestData()
ReadJsonCall ==
  /\ \E op \in {"readJsonFile", "getCheckoutTestData"} :
       readerCall' = Called(op, readJsonFile(jsonFile, "checkout-data.json"), {})
  /\ UNCHANGED <<csvFile, jsonFile, notReader>>

\* getValidUsers() or getInvalidUsers()
UsersCall ==
  /\ \E op \in {"getValidUsers", "getInvalidUsers"} :
       readerCall' =
         Called(op, getUsersByResult(csvFile, IF op = "getValidUsers"
                                                 THEN "success" ELSE "error"), {})
  /\ UNCHANGED <<csvFile, jsonFile, notReader>>

\* getShoppingScenarios()
ScenariosCall ==
  /\ readerCall' = Called("getShoppingScenarios", getShoppingScenarios(jsonFile), {})
  /\ UNCHANGED <<csvFile, jsonFile, notReader>>

\* getRandomCheckoutInfo()
RandomInfoCall ==
  /\ \E randomIndex \in RandomIndexes(Len(jsonFile.validCheckoutData.items)) :
       readerCall' = Called("getRandomCheckoutInfo",
                            getRandomCheckoutInfo(jsonFile, randomIndex), {})
  /\ UNCHANGED <<csvFile, jsonFile, notReader>>

ReaderNext ==
  \/ ReadCsvCall \/ ReadJsonCall \/ UsersCall \/ ScenariosCall \/ RandomInfoCall

SpecReader == ReaderInit /\ [][ReaderNext]_vars

\* the fixture a call reads is missing or malformed
CsvMalformed ==
  \/ csvFile.state = "missing"
  \/ Len(csvFile.lines) < 2
  \/ SkippedRows(csvFile.lines) # {}

JsonMalformed(key) ==
  \/ jsonFile.state # "ok"
  \/ ~jsonFile[key].present
  \/ jsonFile[key].items = <<>>

FixtureMalformed(op) ==
  CASE op \in {"readCsvFile", "getUserTestData", "getValidUsers", "getInvalidUsers"} ->
         CsvMalformed
    [] op \in {"readJsonFile", "getCheckoutTestData"} ->
         \/ jsonFile.state # "ok"
         \/ JsonMalformed("shoppingScenarios")
         \/ JsonMalformed("validCheckoutData")
    [] op = "getShoppingScenarios" -> JsonMalformed("shoppingScenarios")
    [] op = "getRandomCheckoutInfo" -> JsonMalformed("validCheckoutData")
    [] OTHER -> FALSE

\* C24: every TestDataReader operation on a missing or malformed fixture
\* fails with the reader's own error ("Failed to read ... file"), never with
\* a raw runtime error, and never returns data.
C24_ReaderFailsWithOwnError ==
  readerCall.op # "none" =>
    /\ readerCall.error.type # "TypeError"
    /\ FixtureMalformed(readerCall.op) =>
         /\ readerCall.outcome = "threw"
         /\ readerCall.error.type = "Error"
         /\ readerCall.error.message[1] \in
              {"Failed to read JSON file: ", "Failed to read CSV file: "}

(***************************************************************************)
(* Claims about how the checkout calls resolve their elements and about    *)
(* stages called out of order (SpecCheckout).                              *)
(***************************************************************************)
\* the error BasePage.findElement throws for an element it cannot resolve
IsFindElementError(error) ==
  /\ error.type = "Error"
  /\ error.message[1] = "Element '"
  /\ error.message[3] = "' not found"

OutOfOrder ==
  /\ checkoutCall.op \in {"proceedToCheckout", "continueToReview", "finishOrder"}
  /\ checkoutCall.outcome \in {"returned", "threw"}
  /\ browserUp
  /\ <<checkoutCall.op, checkoutCall.startScreen>> \notin
       {<<"proceedToCheckout", "cart">>, <<"continueToReview", "info">>,
        <<"finishOrder", "review">>}

C27_AddNeverRemoves ==
  shopCall.op = "addProductToCartByName" =>
    \A i \in 1..Len(shopCall.startCart) :
      \E j \in 1..Len(appCart) : appCart[j] = shopCall.startCart[i]

\* ---------------------------------------------------------------------
\* ReportGenerator.formatDuration (src/utils/ReportGenerator.js:501-515)
\* ---------------------------------------------------------------------

\* durations formatted: every whole millisecond below MaxMinutes minutes
MaxMinutes == 2
Durations == 0..(MaxMinutes * 60000 - 1)

\* 2^k modulo 1000
RECURSIVE Pow2Mod1000(_)
Pow2Mod1000(k) == IF k = 0 THEN 1 ELSE (2 * Pow2Mod1000(k - 1)) % 1000

\* the binary exponent of the double duration / 1000, for 1000 <= duration
RECURSIVE Exponent(_, _)
Exponent(duration, e) ==
  IF duration < 1000 * 2 ^ (e + 1) THEN e ELSE Exponent(duration, e + 1)

\* duration / 1000 as JavaScript computes it: the double nearest to the
\* quotient, given by how it lies to the exact quotient. The double is
\* m / 2^k with m the integer nearest to duration * 2^k / 1000 and
\* k = 52 - exponent; the remainder of that division says which way m went.
DoubleOfThousandth(duration) ==
  LET k == 52 - Exponent(duration, 0)
      r == ((duration % 1000) * Pow2Mod1000(k)) % 1000
  IN  IF r = 0 THEN "exact" ELSE IF r > 500 THEN "above" ELSE "below"

\* (duration / 1000).toFixed(1), in tenths: the n with n / 10 nearest to
\* the double, the larger n when two are equally near
toFixed1(duration) ==
  LET n == duration \div 100
      rest == duration % 100
  IN  IF rest < 50 THEN n
      ELSE IF rest > 50 THEN n + 1
      ELSE IF DoubleOfThousandth(duration) = "below" THEN n ELSE n + 1

\* (part / 1000).toFixed(0) for part below 60000: a half is a double, so
\* the tie is exact and goes to the larger integer
toFixed0(part) == (part + 500) \div 1000

Rendered(duration, unit, minutes, seconds, tenths, ms) ==
  [op |-> "formatDuration", duration |-> duration, unit |-> unit,
   minutes |-> minutes, seconds |-> seconds, tenths |-> tenths, ms |-> ms]

\* formatDuration: "<ms>ms", "<seconds>.<tenths>s" or "<minutes>m <seconds>s"
formatDuration(duration) ==
  IF duration = 0 THEN Rendered(duration, "ms", 0, 0, 0, 0)
  ELSE IF duration < 1000 THEN Rendered(duration, "ms", 0, 0, 0, duration)
  ELSE IF duration < 60000
    THEN Rendered(duration, "s", 0, toFixed1(duration) \div 10,
                  toFixed1(duration) % 10, 0)
  ELSE Rendered(duration, "m", duration \div 60000,
                toFixed0(duration % 60000), 0, 0)

\* a duration to format: a suite's or a test's, in whole milliseconds
ReportInit ==
  /\ \E duration \in Durations :
       reportCall = [IdleReportCall EXCEPT !.duration = duration]
  /\ CaptureIdle
  /\ ReaderIdle
  /\ MgrIdle
  /\ TestIdle
  /\ PageIdle
  /\ LoginIdle
  /\ shopScreen = "inventory"
  /\ appCart = <<>>
  /\ pageCart = <<>>
  /\ appSort = "az"
  /\ pageOrder = Catalog
  /\ expectedCart = NothingExpected
  /\ shopCall = IdleShopCall
  /\ navPending = "none"
  /\ form = EmptyForm
  /\ formError = "none"
  /\ checkoutCall = IdleCheckoutCall

\* the report formats the duration
FormatDurationCall ==
  /\ reportCall.op = "none"
  /\ reportCall' = formatDuration(reportCall.duration)
  /\ UNCHANGED notReport

ReportNext == FormatDurationCall

SpecReport == ReportInit /\ [][ReportNext]_vars

\* C30: formatDuration renders every non-negative whole duration in range:
\* below 1000 ms as "<ms>ms", from 1000 ms to below 60000 ms as seconds
\* strictly below 60, and from 60000 ms as "<m>m <s>s" with the seconds
\* between 0 and 59.
C30_DurationInRange ==
  reportCall.op = "formatDuration" =>
    /\ reportCall.duration < 1000 =>
         /\ reportCall.unit = "ms"
         /\ reportCall.ms = reportCall.duration
    /\ (reportCall.duration >= 1000 /\ reportCall.duration < 60000) =>
         /\ reportCall.unit = "s"
         /\ reportCall.seconds < 60
    /\ reportCall.duration >= 60000 =>
         /\ reportCall.unit = "m"
         /\ reportCall.minutes = reportCall.duration \div 60000
         /\ reportCall.seconds \in 0..59

=============================================================================
